---- MODULE Spec2Model ----
(***************************************************************************)
(* A model of packmin: the response parser (ai.py), the consistency        *)
(* validator (models.py), the weather lookup (weather.py) and the AI       *)
(* provider adapters (ai.py).                                              *)
(*                                                                         *)
(* Representation of Python values                                         *)
(*  - a float or a JSON number x is the integer x * 128 (a dyadic fixed    *)
(*    point: sums and differences of such values are exact in IEEE         *)
(*    doubles, so the model computes what the code computes on them);      *)
(*  - a text is a sequence of tokens (markers, whitespace, prose, JSON     *)
(*    punctuation and literals);                                           *)
(*  - a decoded JSON value is a tagged record;                             *)
(*  - a call that may raise yields a record with ok / exc fields.          *)
(***************************************************************************)
EXTENDS Integers, Sequences, FiniteSets, TLC

VARIABLES
    raw_response,    \* parser: the text handed to parse_packing_list
    origin,          \* parser: how that text was built (ghost)
    parse_result,    \* parser: outcome of parse_packing_list, or Idle
    packing_list,    \* validator: the PackingList validate_quantities runs on
    validation,      \* validator: outcome of validate_quantities, or Idle
    config,          \* the Config in use (get_config() or the one passed)
    now,             \* weather: datetime.now()
    weather_args,    \* weather: arguments of get_weather_data
    calls,           \* weather: outbound HTTP calls made, with their responses
    weather_result,  \* weather: outcome of get_weather_data, or Idle
    estimate,        \* weather: outcome of get_seasonal_estimate, or Idle
    prompt,          \* provider: the prompt text
    remote,          \* provider: what the remote endpoint did, or Idle
    generate_result, \* provider: outcome of generate, or Idle
    environ,         \* config: os.environ, each variable unset (<<>>) or <<value>>
    dotenv,          \* config: the variables the .env file of the directory sets
    global_config,   \* config: the module's _config: <<>> (None) or <<Config>>
    config_op,       \* config: the last operation of the config module and its result
    loads,           \* config: how often get_config ran Config.load (ghost)
    trip,            \* trip: the TripInfo at hand
    trip_op,         \* trip: the last operation on it and its result, or Idle
    argv,            \* cli: the options of the command line and the answers typed
    run              \* cli: how far main has come, what it printed and wrote

vars == <<raw_response, origin, parse_result, packing_list, validation, config,
          now, weather_args, calls, weather_result, estimate,
          prompt, remote, generate_result,
          environ, dotenv, global_config, config_op, loads,
          trip, trip_op, argv, run>>

parserVars == <<raw_response, origin, parse_result>>
validatorVars == <<packing_list, validation>>
weatherVars == <<now, weather_args, calls, weather_result, estimate>>
providerVars == <<prompt, remote, generate_result>>
configVars == <<environ, dotenv, global_config, config_op, loads>>
tripVars == <<trip, trip_op>>
cliVars == <<argv, run>>

\* ---------------------------------------------------------------- bounds
\* Longest item array of a generated JSON block.
MaxItems == 2
\* The instants of a day the clock tells apart (0 is midnight).
TicksPerDay == 2
\* The latest trip start, in days after today.
MaxStartDay == 9
\* The longest trip, in days from its first to its last day.
MaxTripDays == 2
\* The most calls of get_config / reset_config and changes of the environment
\* in one run.
MaxConfigOps == 4
\* The most destinations of a trip.
MaxDestinations == 2
\* The most pairs of dates typed in interactive mode.
MaxAttempts == 2
MaxCalls == 3

\* ------------------------------------------------------ Python values
\* The float (or JSON number) n.
F(n) == n * 128

\* int(x) of a float x: truncation toward zero.
Trunc(x) == IF x >= 0 THEN x \div 128 ELSE -((-x) \div 128)

Idle == [status |-> "idle"]

\* ------------------------------------------------------------- texts
\* A token of a text: k is its kind ("START" and "END" are the literal markers
\* PARSEABLE_JSON_START and PARSEABLE_JSON_END, "ws" whitespace, "txt" any
\* other prose, the rest JSON punctuation and literals), s the content of a
\* string literal, n the value of a number literal.
Tok(k, s, n) == [k |-> k, s |-> s, n |-> n]
P(k) == Tok(k, "", 0)
StrTok(s) == Tok("str", s, 0)
NumTok(n) == Tok("num", "", n)

\* A decoded JSON value, i.e. the Python object json.loads builds.
JNull == [k |-> "null", s |-> "", n |-> 0, items |-> <<>>]
JBool(b) == [k |-> IF b THEN "true" ELSE "false", s |-> "", n |-> 0, items |-> <<>>]
JNum(n) == [k |-> "num", s |-> "", n |-> n, items |-> <<>>]
JStr(s) == [k |-> "str", s |-> s, n |-> 0, items |-> <<>>]
JArr(elems) == [k |-> "arr", s |-> "", n |-> 0, items |-> elems]
\* pairs: a sequence of [key, val] records in source order.
JObj(pairs) == [k |-> "obj", s |-> "", n |-> 0, items |-> pairs]
KV(key, val) == [key |-> key, val |-> val]

None == JNull

IsKind(t, i, k) == i <= Len(t) /\ t[i].k = k

RECURSIVE SkipWs(_, _)
\* The first index at or after i that holds no whitespace (the regex's \s*
\* and the JSON decoder's whitespace skipping).
SkipWs(t, i) == IF IsKind(t, i, "ws") THEN SkipWs(t, i + 1) ELSE i

SetMin(S) == CHOOSE x \in S : \A y \in S : x <= y

\* ------------------------------------------------------- json.loads
JFail == [ok |-> FALSE, val |-> JNull, next |-> 0]
JOk(v, next) == [ok |-> TRUE, val |-> v, next |-> next]

RECURSIVE ParseValue(_, _), ParseMembers(_, _, _, _), ParseElements(_, _, _, _)
\* One JSON value starting at token i.
ParseValue(t, i) ==
    IF i > Len(t) THEN JFail
    ELSE CASE t[i].k = "str" -> JOk(JStr(t[i].s), i + 1)
           [] t[i].k = "num" -> JOk(JNum(t[i].n), i + 1)
           [] t[i].k = "null" -> JOk(JNull, i + 1)
           [] t[i].k = "true" -> JOk(JBool(TRUE), i + 1)
           [] t[i].k = "false" -> JOk(JBool(FALSE), i + 1)
           [] t[i].k = "{" -> ParseMembers(t, SkipWs(t, i + 1), <<>>, TRUE)
           [] t[i].k = "[" -> ParseElements(t, SkipWs(t, i + 1), <<>>, TRUE)
           [] OTHER -> JFail

\* The members of an object, i just after "{" (first) or after a ",".
ParseMembers(t, i, acc, first) ==
    IF first /\ IsKind(t, i, "}") THEN JOk(JObj(acc), i + 1)
    ELSE IF ~IsKind(t, i, "str") THEN JFail
    ELSE LET c == SkipWs(t, i + 1) IN
         IF ~IsKind(t, c, ":") THEN JFail
         ELSE LET v == ParseValue(t, SkipWs(t, c + 1)) IN
              IF ~v.ok THEN JFail
              ELSE LET e == SkipWs(t, v.next)
                       acc2 == Append(acc, KV(t[i].s, v.val))
                   IN  IF IsKind(t, e, ",")
                       THEN ParseMembers(t, SkipWs(t, e + 1), acc2, FALSE)
                       ELSE IF IsKind(t, e, "}") THEN JOk(JObj(acc2), e + 1)
                       ELSE JFail

\* The elements of an array, i just after "[" (first) or after a ",".
ParseElements(t, i, acc, first) ==
    IF first /\ IsKind(t, i, "]") THEN JOk(JArr(acc), i + 1)
    ELSE LET v == ParseValue(t, i) IN
         IF ~v.ok THEN JFail
         ELSE LET e == SkipWs(t, v.next)
                  acc2 == Append(acc, v.val)
              IN  IF IsKind(t, e, ",")
                  THEN ParseElements(t, SkipWs(t, e + 1), acc2, FALSE)
                  ELSE IF IsKind(t, e, "]") THEN JOk(JArr(acc2), e + 1)
                  ELSE JFail

\* Mutant of json_loads: text after the first JSON document is ignored.
json_loads_prefix(t) ==
    LET r == ParseValue(t, SkipWs(t, 1)) IN
    IF r.ok
    THEN [ok |-> TRUE, val |-> r.val, exc |-> ""]
    ELSE [ok |-> FALSE, val |-> JNull, exc |-> "JSONDecodeError"]

\* json.loads(t): the value, or JSONDecodeError when t is not exactly one
\* JSON document.
json_loads(t) ==
    LET r == ParseValue(t, SkipWs(t, 1)) IN
    IF r.ok /\ SkipWs(t, r.next) = Len(t) + 1
    THEN [ok |-> TRUE, val |-> r.val, exc |-> ""]
    ELSE [ok |-> FALSE, val |-> JNull, exc |-> "JSONDecodeError"]

\* ------------------------------------------------ extract_json_block
\* Ends of the shortest-first candidates of (\{.*?\}) for a "{" at j: a "}"
\* after it that is followed by optional whitespace and the END marker.
BlockEnds(t, j) ==
    {e \in (j + 1)..Len(t) : t[e].k = "}" /\ IsKind(t, SkipWs(t, e + 1), "END")}

\* Whether the pattern matches with its START marker at token i.
MatchesAt(t, i) ==
    /\ IsKind(t, i, "START")
    /\ IsKind(t, SkipWs(t, i + 1), "{")
    /\ BlockEnds(t, SkipWs(t, i + 1)) # {}

SetMax(S) == CHOOSE x \in S : \A y \in S : y <= x

\* Mutant of re_search: the greedy (\{.*\}), group 1 the longest one.
re_search_greedy(t) ==
    LET starts == {i \in 1..Len(t) : MatchesAt(t, i)} IN
    IF starts = {} THEN [found |-> FALSE, group1 |-> <<>>]
    ELSE LET i == SetMin(starts)
             j == SkipWs(t, i + 1)
         IN  [found |-> TRUE, group1 |-> SubSeq(t, j, SetMax(BlockEnds(t, j)))]

\* re.search(r"PARSEABLE_JSON_START\s*(\{.*?\})\s*PARSEABLE_JSON_END", text,
\* re.DOTALL): the leftmost match, its group 1 the shortest one.
re_search(t) ==
    LET starts == {i \in 1..Len(t) : MatchesAt(t, i)} IN
    IF starts = {} THEN [found |-> FALSE, group1 |-> <<>>]
    ELSE LET i == SetMin(starts)
             j == SkipWs(t, i + 1)
         IN  [found |-> TRUE, group1 |-> SubSeq(t, j, SetMin(BlockEnds(t, j)))]

\* extract_json_block(text): the decoded dict, or None.
extract_json_block(text) ==
    LET match == re_search(text) IN
    IF match.found
    THEN LET d == json_loads(match.group1) IN
         IF d.ok THEN d.val ELSE None
    ELSE None

\* ------------------------------------------- Python built-ins used
Ok(v) == [ok |-> TRUE, val |-> v, exc |-> ""]
Err(exc) == [ok |-> FALSE, val |-> 0, exc |-> exc]

\* d.get(key, default) on a dict: the value of the last pair with that key
\* (a repeated key of a JSON object keeps its last value).
dict_get(d, key, default) ==
    LET hits == {i \in 1..Len(d.items) : d.items[i].key = key} IN
    IF hits = {} THEN default
    ELSE d.items[CHOOSE i \in hits : \A j \in hits : j <= i].val

\* The strings of the inputs that int() and float() accept, with their value.
IntLiteral(s) == CASE s = "3" -> 3 [] s = "0" -> 0 [] OTHER -> -1
IsIntLiteral(s) == s \in {"3", "0"}
FloatLiteral(s) == CASE s = "3" -> F(3) [] s = "0" -> 0 [] s = "2.5" -> F(2) + 64
                     [] s = "39" -> F(39) [] s = "9" -> F(9) [] s = "45" -> F(45)
                     [] OTHER -> -1
IsFloatLiteral(s) == s \in {"3", "0", "2.5", "39", "9", "45"}

\* int(v)
py_int(v) ==
    CASE v.k = "num" -> Ok(Trunc(v.n))
      [] v.k = "true" -> Ok(1)
      [] v.k = "false" -> Ok(0)
      [] v.k = "str" -> IF IsIntLiteral(v.s) THEN Ok(IntLiteral(v.s))
                        ELSE Err("ValueError")
      [] OTHER -> Err("TypeError")

\* float(v)
py_float(v) ==
    CASE v.k = "num" -> Ok(v.n)
      [] v.k = "true" -> Ok(F(1))
      [] v.k = "false" -> Ok(0)
      [] v.k = "str" -> IF IsFloatLiteral(v.s) THEN Ok(FloatLiteral(v.s))
                        ELSE Err("ValueError")
      [] OTHER -> Err("TypeError")

\* bool(v)
Truthy(v) ==
    CASE v.k \in {"null", "false"} -> FALSE
      [] v.k = "true" -> TRUE
      [] v.k = "num" -> v.n # 0
      [] v.k = "str" -> v.s # ""
      [] OTHER -> Len(v.items) > 0

\* The elements "for x in v" visits: those of a list, the keys of a dict, the
\* characters of a str (one str stands for them: the loop bodies fail on the
\* first); None, numbers and booleans are not iterable.
py_iter(v) ==
    CASE v.k = "arr" -> Ok(v.items)
      [] v.k = "obj" -> Ok([i \in 1..Len(v.items) |-> JStr(v.items[i].key)])
      [] v.k = "str" -> Ok(IF v.s = "" THEN <<>> ELSE <<JStr(v.s)>>)
      [] OTHER -> Err("TypeError")

\* pydantic's validation of a str field.
str_field(v) == IF v.k = "str" THEN Ok(v.s) ELSE Err("ValidationError")

\* pydantic's validation of a list[str] field.
str_list_field(v) ==
    IF v.k = "arr" /\ \A i \in 1..Len(v.items) : v.items[i].k = "str"
    THEN Ok([i \in 1..Len(v.items) |-> v.items[i].s])
    ELSE Err("ValidationError")

\* ----------------------------------------------------------- models
PackingItem(name, quantity, per_item_volume_l, total_volume_l, description) ==
    [name |-> name, quantity |-> quantity,
     per_item_volume_l |-> per_item_volume_l,
     total_volume_l |-> total_volume_l, description |-> description,
     category |-> ""]

PackingCube(name, items, total_volume_l) ==
    [name |-> name, items |-> items, total_volume_l |-> total_volume_l]

PackingTotals(estimated_volume_l, percent_of_capacity, estimated_weight_kg) ==
    [estimated_volume_l |-> estimated_volume_l,
     percent_of_capacity |-> percent_of_capacity,
     estimated_weight_kg |-> estimated_weight_kg]

\* PackingList(raw_response=raw): every other field at its default.
PackingList(raw) ==
    [total_clothes |-> <<>>, worn_on_departure |-> <<>>,
     packed_in_luggage |-> <<>>, packing_cubes |-> <<>>,
     totals |-> PackingTotals(0, 0, 0), raw_response |-> raw]

\* ----------------------------------------------- parse_packing_list
\* PackingItem(name=item.get("name", ""), quantity=int(item.get("qty", 1)),
\* ...): the arguments are evaluated in order, then the model is validated.
item_from_json(item) ==
    IF item.k # "obj" THEN Err("AttributeError")
    ELSE LET qty == py_int(dict_get(item, "qty", JNum(F(1))))
             per == py_float(dict_get(item, "per_item_volume_l", JNum(0)))
             tot == py_float(dict_get(item, "total_volume_l", JNum(0)))
             name == str_field(dict_get(item, "name", JStr("")))
             desc == str_field(dict_get(item, "description", JStr("")))
         IN  CASE ~qty.ok -> Err(qty.exc)
               [] qty.ok /\ ~per.ok -> Err(per.exc)
               [] qty.ok /\ per.ok /\ ~tot.ok -> Err(tot.exc)
               [] qty.ok /\ per.ok /\ tot.ok /\ ~name.ok -> Err(name.exc)
               [] qty.ok /\ per.ok /\ tot.ok /\ name.ok /\ ~desc.ok -> Err(desc.exc)
               [] OTHER -> Ok(PackingItem(name.val, qty.val, per.val, tot.val,
                                          desc.val))

\* PackingCube(name=cube.get("cube", ""), items=cube.get("items", []),
\* total_volume_l=float(cube.get("total_volume_l", 0)))
cube_from_json(cube) ==
    IF cube.k # "obj" THEN Err("AttributeError")
    ELSE LET tot == py_float(dict_get(cube, "total_volume_l", JNum(0)))
             name == str_field(dict_get(cube, "cube", JStr("")))
             items == str_list_field(dict_get(cube, "items", JArr(<<>>)))
         IN  CASE ~tot.ok -> Err(tot.exc)
               [] tot.ok /\ ~name.ok -> Err(name.exc)
               [] tot.ok /\ name.ok /\ ~items.ok -> Err(items.exc)
               [] OTHER -> Ok(PackingCube(name.val, items.val, tot.val))

RECURSIVE items_loop(_, _, _), cubes_loop(_, _, _)
\* for item in elems: <list>.append(PackingItem(...)), from element i on.
items_loop(elems, i, acc) ==
    IF i > Len(elems) THEN Ok(acc)
    ELSE LET it == item_from_json(elems[i]) IN
         IF it.ok THEN items_loop(elems, i + 1, Append(acc, it.val))
         ELSE Err(it.exc)

\* for cube in elems: packing_cubes.append(PackingCube(...)), from element i on.
cubes_loop(elems, i, acc) ==
    IF i > Len(elems) THEN Ok(acc)
    ELSE LET c == cube_from_json(elems[i]) IN
         IF c.ok THEN cubes_loop(elems, i + 1, Append(acc, c.val))
         ELSE Err(c.exc)

\* One "for item in parsed.get(key, [])" loop of parse_packing_list.
parse_items(parsed, key) ==
    LET elems == py_iter(dict_get(parsed, key, JArr(<<>>))) IN
    IF elems.ok THEN items_loop(elems.val, 1, <<>>) ELSE Err(elems.exc)

\* The "for cube in parsed.get("packing_cubes", [])" loop.
parse_cubes(parsed) ==
    LET elems == py_iter(dict_get(parsed, "packing_cubes", JArr(<<>>))) IN
    IF elems.ok THEN cubes_loop(elems.val, 1, <<>>) ELSE Err(elems.exc)

\* totals = parsed.get("totals", {}); if totals: PackingTotals(float(...), ...)
parse_totals(parsed) ==
    LET totals == dict_get(parsed, "totals", JObj(<<>>)) IN
    IF ~Truthy(totals) THEN Ok(PackingTotals(0, 0, 0))
    ELSE IF totals.k # "obj" THEN Err("AttributeError")
    ELSE LET vol == py_float(dict_get(totals, "estimated_volume_l", JNum(0)))
             pct == py_float(dict_get(totals, "percent_of_capacity", JNum(0)))
             kg == py_float(dict_get(totals, "estimated_weight_kg", JNum(0)))
         IN  CASE ~vol.ok -> Err(vol.exc)
               [] vol.ok /\ ~pct.ok -> Err(pct.exc)
               [] vol.ok /\ pct.ok /\ ~kg.ok -> Err(kg.exc)
               [] OTHER -> Ok(PackingTotals(vol.val, pct.val, kg.val))

Returned(v) == [status |-> "returned", value |-> v, exc |-> ""]
Raised(exc) == [status |-> "raised", value |-> 0, exc |-> exc]

\* parse_packing_list(raw): the PackingList returned, or the exception that
\* leaves the function (nothing in it is caught).
parse_packing_list(raw) ==
    LET parsed == extract_json_block(raw) IN
    IF ~Truthy(parsed) THEN Returned(PackingList(raw))
    ELSE LET tc == parse_items(parsed, "total_clothes")
             worn == parse_items(parsed, "worn_on_departure")
             packed == parse_items(parsed, "packed_in_luggage")
             cubes == parse_cubes(parsed)
             totals == parse_totals(parsed)
         IN  CASE ~tc.ok -> Raised(tc.exc)
               [] tc.ok /\ ~worn.ok -> Raised(worn.exc)
               [] tc.ok /\ worn.ok /\ ~packed.ok -> Raised(packed.exc)
               [] tc.ok /\ worn.ok /\ packed.ok /\ ~cubes.ok -> Raised(cubes.exc)
               [] tc.ok /\ worn.ok /\ packed.ok /\ cubes.ok /\ ~totals.ok ->
                    Raised(totals.exc)
               [] OTHER ->
                    Returned([total_clothes |-> tc.val,
                              worn_on_departure |-> worn.val,
                              packed_in_luggage |-> packed.val,
                              packing_cubes |-> cubes.val,
                              totals |-> totals.val,
                              raw_response |-> raw])

\* ------------------------------------------------ the AI's responses
\* What the AI provider may answer is the input of the parser: a JSON value
\* written out as tokens, wrapped in prose and markers, or damaged.
RECURSIVE Render(_), RenderElems(_, _), RenderPairs(_, _)
\* The compact JSON text of value v.
Render(v) ==
    CASE v.k = "str" -> <<StrTok(v.s)>>
      [] v.k = "num" -> <<NumTok(v.n)>>
      [] v.k = "arr" -> <<P("[")>> \o RenderElems(v.items, 1) \o <<P("]")>>
      [] v.k = "obj" -> <<P("{")>> \o RenderPairs(v.items, 1) \o <<P("}")>>
      [] OTHER -> <<P(v.k)>>

RenderElems(elems, i) ==
    IF i > Len(elems) THEN <<>>
    ELSE Render(elems[i]) \o (IF i < Len(elems) THEN <<P(",")>> ELSE <<>>)
         \o RenderElems(elems, i + 1)

RenderPairs(pairs, i) ==
    IF i > Len(pairs) THEN <<>>
    ELSE <<StrTok(pairs[i].key), P(":")>> \o Render(pairs[i].val)
         \o (IF i < Len(pairs) THEN <<P(",")>> ELSE <<>>)
         \o RenderPairs(pairs, i + 1)

\* Item records as the prompt's schema asks for them, fields present or not:
\* quantities whole, fractional, zero and negative.
SampleItems ==
    { JObj(<<KV("name", JStr("T-shirt")), KV("qty", JNum(F(3))),
             KV("total_volume_l", JNum(F(2) + 16))>>),
      JObj(<<KV("name", JStr("Pants")), KV("qty", JNum(F(1))),
             KV("per_item_volume_l", JNum(F(1) + 64)),
             KV("total_volume_l", JNum(F(1) + 64)),
             KV("description", JStr("denim"))>>),
      JObj(<<>>),
      JObj(<<KV("name", JStr("Socks")), KV("qty", JNum(0)),
             KV("per_item_volume_l", JNum(32))>>),
      JObj(<<KV("qty", JNum(F(-2) - 64)), KV("description", JStr("spare")),
             KV("total_volume_l", JNum(F(-1)))>>) }

SampleCubes ==
    { JObj(<<KV("cube", JStr("Cube 1")),
             KV("items", JArr(<<JStr("T-shirt"), JStr("Pants")>>)),
             KV("total_volume_l", JNum(F(9)))>>),
      JObj(<<KV("items", JArr(<<>>))>>) }

SampleTotals ==
    { JObj(<<KV("estimated_volume_l", JNum(F(20))),
             KV("percent_of_capacity", JNum(F(51) + 32)),
             KV("estimated_weight_kg", JNum(F(4) + 64))>>) }

\* The sequences over S of length at most n.
SeqsUpTo(S, n) == UNION {[1..m -> S] : m \in 0..n}

ItemKeys == <<"total_clothes", "worn_on_departure", "packed_in_luggage">>

\* An optional value is <<>> (the key is left out) or <<v>>.
OptPair(key, opt) == IF Len(opt) = 0 THEN <<>> ELSE <<KV(key, opt[1])>>

OtherArrays == { <<>>, <<JArr(<<JObj(<<KV("name", JStr("Coat")),
                                       KV("qty", JNum(F(1)))>>)>>)>> }

\* The packing_cubes array and the totals object that go with the item
\* arrays: [cubes, totals], each optional.
Extras ==
    { [cubes |-> <<>>, totals |-> <<>>],
      [cubes |-> <<JArr(<<>>)>>, totals |-> <<JObj(<<>>)>>] }
    \cup {[cubes |-> <<JArr(c)>>, totals |-> <<t>>] :
            c \in [1..2 -> SampleCubes], t \in SampleTotals}

\* The object whose k-th item array is l, the two other item arrays o.
SchemaObject(k, l, o, x) ==
    JObj(   OptPair(ItemKeys[1], IF k = 1 THEN <<JArr(l)>> ELSE o)
         \o OptPair(ItemKeys[2], IF k = 2 THEN <<JArr(l)>> ELSE o)
         \o OptPair(ItemKeys[3], IF k = 3 THEN <<JArr(l)>> ELSE o)
         \o OptPair("packing_cubes", x.cubes)
         \o OptPair("totals", x.totals) )

\* The JSON objects that follow the prompt's schema: one item array ranges
\* over every list of sample items, the others over a few fixed values.
SchemaObjects ==
    { SchemaObject(k, l, o, x) :
        k \in 1..3, l \in SeqsUpTo(SampleItems, MaxItems), o \in OtherArrays,
        x \in Extras }
    \cup {JObj(<<>>)}

\* Objects that decode but break the schema: arrays or fields that are null,
\* of the wrong type, or hold elements that are no objects.
OffSchemaObjects ==
    { JObj(<<KV("total_clothes", JNull)>>),
      JObj(<<KV("total_clothes", JArr(<<JNull>>))>>),
      JObj(<<KV("total_clothes", JNum(F(5)))>>),
      JObj(<<KV("total_clothes", JStr(""))>>),
      JObj(<<KV("total_clothes", JObj(<<>>)), KV("totals", JNull)>>),
      JObj(<<KV("total_clothes",
                JArr(<<JObj(<<KV("name", JStr("Hat")), KV("qty", JNull)>>)>>))>>),
      JObj(<<KV("total_clothes",
                JArr(<<JObj(<<KV("name", JStr("Hat")), KV("qty", JStr("abc"))>>)>>))>>),
      JObj(<<KV("total_clothes",
                JArr(<<JObj(<<KV("name", JStr("Hat")), KV("qty", JStr("3")),
                              KV("total_volume_l", JStr("2.5"))>>)>>))>>),
      JObj(<<KV("total_clothes",
                JArr(<<JObj(<<KV("name", JNull), KV("qty", JNum(F(1)))>>)>>))>>),
      JObj(<<KV("total_clothes",
                JArr(<<JObj(<<KV("name", JStr("Hat")),
                              KV("total_volume_l", JArr(<<>>))>>)>>))>>),
      JObj(<<KV("worn_on_departure", JStr("none"))>>),
      JObj(<<KV("worn_on_departure", JBool(TRUE))>>),
      JObj(<<KV("packed_in_luggage", JArr(<<JStr("Socks")>>))>>),
      JObj(<<KV("packed_in_luggage", JObj(<<KV("Socks", JNum(F(2)))>>))>>),
      JObj(<<KV("packing_cubes", JArr(<<JObj(<<KV("cube", JNull)>>)>>))>>),
      JObj(<<KV("packing_cubes", JArr(<<JObj(<<KV("items", JStr("Socks"))>>)>>))>>),
      JObj(<<KV("packing_cubes", JArr(<<JNum(F(1))>>))>>),
      JObj(<<KV("totals", JArr(<<JNum(F(1))>>))>>),
      JObj(<<KV("totals", JObj(<<KV("estimated_volume_l", JStr("n/a"))>>))>>),
      JObj(<<KV("totals", JObj(<<KV("estimated_weight_kg", JNull)>>))>>) }

\* The ways a response wraps its JSON text p so that the pattern finds it:
\* bare; in prose and whitespace; after a marker quoted in the prose; before
\* a second block.
Wrapped(p) ==
    { <<P("START")>> \o p \o <<P("END")>>,
      <<P("txt"), P("START"), P("ws")>> \o p \o <<P("ws"), P("ws"), P("END"), P("txt")>>,
      <<P("START"), P("txt"), P("END"), P("START")>> \o p \o <<P("END")>>,
      <<P("START")>> \o p \o <<P("END"), P("txt"), P("{"), P("}"), P("ws"), P("END")>> }

\* The ways a response holds the JSON text p with no block for the pattern:
\* a marker missing, the markers swapped, prose between marker and brace.
Unmarked(p) ==
    { p,
      <<P("txt")>> \o p \o <<P("txt")>>,
      <<P("START")>> \o p,
      p \o <<P("ws"), P("END")>>,
      <<P("END")>> \o p \o <<P("START")>>,
      <<P("START"), P("txt")>> \o p \o <<P("END")>>,
      <<P("START")>> \o p \o <<P("txt"), P("END")>> }

Punctuation == {"{", "}", "[", "]", ":", ","}
Without(t, i) == SubSeq(t, 1, i - 1) \o SubSeq(t, i + 1, Len(t))
Inserted(t, i, tok) == SubSeq(t, 1, i) \o <<tok>> \o SubSeq(t, i + 1, Len(t))

\* The damaged versions of a JSON text p: one punctuation token lost, a word
\* of prose inside it, a comma before the closing brace, text after it.
Damaged(p) ==
       {Without(p, i) : i \in {j \in 1..Len(p) : p[j].k \in Punctuation}}
  \cup {Inserted(p, i, P("txt")) : i \in 1..(Len(p) - 1)}
  \cup {Inserted(p, Len(p) - 1, P(",")), p \o <<P("txt"), P("}")>>}

\* The objects whose text is damaged or left unmarked: the schema objects
\* with one item array of at most one item.
DamagedObjects ==
    { SchemaObject(k, l, <<>>, x) :
        k \in 1..3, l \in SeqsUpTo(SampleItems, 1),
        x \in {y \in Extras : Len(y.cubes) = 0 \/ Len(y.cubes[1].items) = 0} }

\* ------------------------------------------------- the parser's runs
\* The response is a schema object or an off-schema object in a block, a
\* damaged text between the markers, or a text with no block at all.
\* origin.kind tells which and origin.obj is the JSON value written into it.
InitParser ==
    /\ parse_result = Idle
    /\ \/ \E o \in SchemaObjects : \E w \in Wrapped(Render(o)) :
            raw_response = w /\ origin = [kind |-> "schema", obj |-> o]
       \/ \E o \in OffSchemaObjects : \E w \in Wrapped(Render(o)) :
            raw_response = w /\ origin = [kind |-> "off_schema", obj |-> o]
       \/ \E o \in DamagedObjects : \E d \in Damaged(Render(o)) :
          \E w \in Wrapped(d) :
            raw_response = w /\ origin = [kind |-> "damaged", obj |-> o]
       \/ \E o \in DamagedObjects \cup {JNull, JStr("hello")} :
          \E u \in Unmarked(IF o.k = "null" THEN <<>> ELSE Render(o)) :
            raw_response = u /\ origin = [kind |-> "unmarked", obj |-> o]

\* The AI's answer is parsed: parse_packing_list(raw_response).
ParsePackingList ==
    /\ parse_result.status = "idle"
    /\ parse_result' = parse_packing_list(raw_response)
    /\ UNCHANGED <<raw_response, origin>>

\* ---------------------------------------------- validate_quantities
RECURSIVE SumQuantity(_, _), SumVolume(_, _)
\* sum(i.quantity for i in items), from item i on.
SumQuantity(items, i) ==
    IF i > Len(items) THEN 0 ELSE items[i].quantity + SumQuantity(items, i + 1)

\* sum(i.total_volume_l for i in items), from item i on.
SumVolume(items, i) ==
    IF i > Len(items) THEN 0 ELSE items[i].total_volume_l + SumVolume(items, i + 1)

Abs(x) == IF x >= 0 THEN x ELSE -x

\* Mutant of ExceedsTolerance: no tolerance, any difference counts.
ExceedsTolerance_none(x) == x > 0

\* x > 0.01 for a float x >= 0: x/128 exceeds the double nearest to 0.01 (which
\* lies a little above 1/100) exactly when 100 * x > 128.
ExceedsTolerance(x) == 100 * x > 128

\* The figure f"{x:.2f}" prints: the sign and the hundredths, the exact value
\* rounded half to even.
Fmt2f(x) ==
    LET a == Abs(x)
        q == (100 * a) \div 128
        r == (100 * a) % 128
        up == 2 * r > 128 \/ (2 * r = 128 /\ q % 2 = 1)
    IN  [neg |-> x < 0, cents |-> IF up THEN q + 1 ELSE q]

\* The two issue texts: what the f-string starts with and the figures in it.
QuantityIssue(total_qty, packed_qty, worn_qty) ==
    [text |-> "Quantity mismatch", figures |-> <<total_qty, packed_qty, worn_qty>>]
VolumeIssue(total_vol, packed_vol, worn_vol) ==
    [text |-> "Volume mismatch",
     figures |-> <<Fmt2f(total_vol), Fmt2f(packed_vol), Fmt2f(worn_vol)>>]
Separator == [text |-> "; ", figures |-> <<>>]

RECURSIVE str_join_bare(_, _)
\* Mutant of str_join: the issues follow each other with nothing between.
str_join_bare(issues, i) ==
    IF i > Len(issues) THEN <<>> ELSE <<issues[i]>> \o str_join_bare(issues, i + 1)

RECURSIVE str_join(_, _)
\* "; ".join(issues), from issue i on: a text is the sequence of its parts.
str_join(issues, i) ==
    IF i > Len(issues) THEN <<>>
    ELSE <<issues[i]>> \o (IF i < Len(issues) THEN <<Separator>> ELSE <<>>)
         \o str_join(issues, i + 1)

\* PackingList.validate_quantities(): (ok, message).
validate_quantities(self) ==
    LET total_qty == SumQuantity(self.total_clothes, 1)
        packed_qty == SumQuantity(self.packed_in_luggage, 1)
        worn_qty == SumQuantity(self.worn_on_departure, 1)
        total_vol == SumVolume(self.total_clothes, 1)
        packed_vol == SumVolume(self.packed_in_luggage, 1)
        worn_vol == SumVolume(self.worn_on_departure, 1)
        issues ==
            (IF total_qty # packed_qty + worn_qty
             THEN <<QuantityIssue(total_qty, packed_qty, worn_qty)>> ELSE <<>>)
         \o (IF ExceedsTolerance(Abs(total_vol - (packed_vol + worn_vol)))
             THEN <<VolumeIssue(total_vol, packed_vol, worn_vol)>> ELSE <<>>)
    IN  [status |-> "returned", ok |-> Len(issues) = 0,
         message |-> str_join(issues, 1)]

\* ---------------------------------------------- the validator's runs
\* The items of the lists validated: quantities 0..2, total volumes that
\* differ by 1/128 l (inside the tolerance) and by more.
ValidatedItems ==
    { PackingItem("Shirt", 1, 0, 1, ""),
      PackingItem("Pants", 1, 0, 2, ""),
      PackingItem("Socks", 2, F(1), 3, "wool"),
      PackingItem("", 0, 0, F(1), "") }

InitValidator ==
    /\ validation = Idle
    /\ \E total \in SeqsUpTo(ValidatedItems, MaxItems),
          packed \in SeqsUpTo(ValidatedItems, MaxItems),
          worn \in SeqsUpTo(ValidatedItems, 1) :
         packing_list = [PackingList(<<>>) EXCEPT !.total_clothes = total,
                                                  !.packed_in_luggage = packed,
                                                  !.worn_on_departure = worn]

\* packing_list.validate_quantities() is called.
ValidateQuantities ==
    /\ validation.status = "idle"
    /\ validation' = validate_quantities(packing_list)
    /\ UNCHANGED packing_list

ParserOff == raw_response = <<>> /\ origin = [kind |-> "none", obj |-> JNull]
             /\ parse_result = Idle
ValidatorOff == packing_list = PackingList(<<>>) /\ validation = Idle

\* ----------------------------------------------------------- weather
\* A datetime: the day number, the instant of that day and the month.
DateTime(day, tod, month) == [day |-> day, tod |-> tod, month |-> month]

\* a <= b on datetimes.
DtLeq(a, b) == a.day < b.day \/ (a.day = b.day /\ a.tod <= b.tod)

\* (a - b).days: a timedelta keeps its seconds non-negative, so the days are
\* the difference rounded down.
DeltaDays(a, b) == a.day - b.day - (IF a.tod < b.tod THEN 1 ELSE 0)

\* datetime.fromtimestamp(x): timestamps count ticks; the month is not used.
fromtimestamp(x) ==
    LET t == x \div 128 IN DateTime(t \div TicksPerDay, t % TicksPerDay, 0)

\* The timestamp of an instant.
Timestamp(day, tod) == F(day * TicksPerDay + tod)

\* forecast_date.strftime("%Y-%m-%d") and the label of an estimate.
strftime(d) == [label |-> "%Y-%m-%d", day |-> d.day]
SeasonalLabel == [label |-> "seasonal average", day |-> 0]

WeatherForecast(date, temp_min, temp_max, description, rain_chance) ==
    [date |-> date, temp_min |-> temp_min, temp_max |-> temp_max,
     description |-> description, rain_chance |-> rain_chance]

\* WeatherData(location=location): no forecasts, not an estimate.
WeatherData(location) ==
    [location |-> location, forecasts |-> <<>>, is_seasonal_estimate |-> FALSE]

\* Mutant of get_season: December falls to the last branch.
get_season_december(month) ==
    IF month \in {1, 2} THEN "winter"
    ELSE IF month \in {3, 4, 5} THEN "spring"
    ELSE IF month \in {6, 7, 8} THEN "summer"
    ELSE "fall"

get_season(month) ==
    IF month \in {12, 1, 2} THEN "winter"
    ELSE IF month \in {3, 4, 5} THEN "spring"
    ELSE IF month \in {6, 7, 8} THEN "summer"
    ELSE "fall"

\* season_temps[season]
season_temps(season) ==
    CASE season = "winter" -> [min |-> F(-5), max |-> F(10)]
      [] season = "spring" -> [min |-> F(10), max |-> F(20)]
      [] season = "summer" -> [min |-> F(20), max |-> F(30)]
      [] season = "fall" -> [min |-> F(10), max |-> F(20)]

\* f"{season} weather": a text is the sequence of its parts.
SeasonDescription(season) == <<season, " weather">>

get_seasonal_estimate(month) ==
    LET season == get_season(month)
        temps == season_temps(season)
    IN  WeatherForecast(SeasonalLabel, temps.min, temps.max,
                        SeasonDescription(season), F(30))

\* An Optional[str]: <<>> is None, <<s>> the string s.
NoKey == <<>>
KeyTruthy(k) == Len(k) > 0 /\ k[1] # ""

\* v[key] for a string key.
py_getitem(v, key) ==
    IF v.k = "obj"
    THEN IF \E i \in 1..Len(v.items) : v.items[i].key = key
         THEN Ok(dict_get(v, key, JNull)) ELSE Err("KeyError")
    ELSE Err("TypeError")

\* v[0]
py_first(v) ==
    CASE v.k = "arr" -> IF Len(v.items) > 0 THEN Ok(v.items[1]) ELSE Err("IndexError")
      [] v.k = "str" -> IF v.s # "" THEN Ok(JStr(v.s)) ELSE Err("IndexError")
      [] v.k = "obj" -> Err("KeyError")
      [] OTHER -> Err("TypeError")

\* v[:7]: the outcomes an interpreter can give. On a dict the slice is
\* looked up as a key and is missing (KeyError) where slices are hashable,
\* from Python 3.12 on, and is unhashable (TypeError) before.
py_slice7(v) ==
    CASE v.k = "arr" -> {Ok(JArr(SubSeq(v.items, 1, IF Len(v.items) < 7 THEN Len(v.items) ELSE 7)))}
      [] v.k = "str" -> {Ok(v)}
      [] v.k = "obj" -> {Err("KeyError"), Err("TypeError")}
      [] OTHER -> {Err("TypeError")}

\* x * 100 for a str or a list x: x repeated 100 times, put together from
\* 64, 32 and 4 copies.
Times100(x) ==
    LET x4 == x \o x \o x \o x
        x32 == x4 \o x4 \o x4 \o x4 \o x4 \o x4 \o x4 \o x4
    IN  x32 \o x32 \o x32 \o x4

\* v * 100: a number is multiplied, a str or a list repeated 100 times.
py_times100(v) ==
    CASE v.k = "num" -> Ok(JNum(v.n * 100))
      [] v.k = "true" -> Ok(JNum(F(100)))
      [] v.k = "false" -> Ok(JNum(0))
      [] v.k = "str" -> Ok(JStr(Times100(v.s)))
      [] v.k = "arr" -> Ok(JArr(Times100(v.items)))
      [] OTHER -> Err("TypeError")

\* The float literals repeated 100 times that still read as a float: a
\* hundred zeros read as 0.0, a run of other digits as a float of about
\* 1e99 or 1e199, which is more than the integers of this model hold and is
\* written Huge(digits). "2.5" repeated has more than one point and is no
\* float.
Huge(digits) == [huge |-> digits]
IsHugeLiteral(s) == \E d \in {"3", "9", "39", "45"} : s = Times100(d)

\* pydantic's validation of a float field: numbers, and strings that read as
\* one.
float_field(v) ==
    CASE v.k = "num" -> Ok(v.n)
      [] v.k = "true" -> Ok(F(1))
      [] v.k = "false" -> Ok(0)
      [] v.k = "str" /\ IsFloatLiteral(v.s) -> Ok(FloatLiteral(v.s))
      [] v.k = "str" /\ v.s = Times100("0") -> Ok(0)
      [] v.k = "str" /\ v.s # "" /\ IsHugeLiteral(v.s) -> Ok(Huge(v.s))
      [] OTHER -> Err("ValidationError")

\* An HTTP exchange: requests.get raised (timeout, connection error), or
\* answered with a status code and a body; json is FALSE when the body is
\* no JSON, so that response.json() raises.
HttpRaised == [raised |-> TRUE, status_code |-> 0, json |-> FALSE, body |-> JNull]
HttpResponse(code, body) == [raised |-> FALSE, status_code |-> code, json |-> TRUE, body |-> body]
HttpText(code) == [raised |-> FALSE, status_code |-> code, json |-> FALSE, body |-> JNull]

\* get_coordinates(location, api_key) given the provider's answer: the
\* coordinates, or None; every exception is swallowed.
get_coordinates(resp) ==
    IF resp.raised \/ resp.status_code # 200 \/ ~resp.json THEN Err("None")
    ELSE LET coord == py_getitem(resp.body, "coord")
             lat == IF coord.ok THEN py_getitem(coord.val, "lat") ELSE coord
             lon == IF coord.ok THEN py_getitem(coord.val, "lon") ELSE coord
         IN  IF coord.ok /\ lat.ok /\ lon.ok
             THEN Ok([lat |-> lat.val, lon |-> lon.val])
             ELSE Err("None")

\* fetch_forecast(lat, lon, api_key) given the provider's answer:
\* data.get("daily", [])[:7], or [] when anything raised, whatever it was.
fetch_forecast(resp) ==
    IF resp.raised \/ resp.status_code # 200 \/ ~resp.json \/ resp.body.k # "obj"
    THEN JArr(<<>>)
    ELSE LET daily == py_slice7(dict_get(resp.body, "daily", JArr(<<>>))) IN
         IF \E d \in daily : ~d.ok THEN JArr(<<>>)
         ELSE (CHOOSE d \in daily : d.ok).val

\* The body of the loop over the daily forecasts for one entry: the
\* forecast to append (keep = TRUE), nothing to append, or the exception
\* raised.
forecast_of(day, start_date, end_date) ==
    LET dt == py_getitem(day, "dt") IN
    IF ~dt.ok THEN Err(dt.exc)
    ELSE IF ~float_field(dt.val).ok \/ dt.val.k = "str" THEN Err("TypeError")
    ELSE LET forecast_date == fromtimestamp(float_field(dt.val).val) IN
         IF ~(DtLeq(start_date, forecast_date) /\ DtLeq(forecast_date, end_date))
         THEN Ok([keep |-> FALSE])
         ELSE LET temp == py_getitem(day, "temp")
                  tmin == IF temp.ok THEN py_getitem(temp.val, "min") ELSE temp
                  tmax == IF temp.ok THEN py_getitem(temp.val, "max") ELSE temp
                  weather == py_getitem(day, "weather")
                  first == IF weather.ok THEN py_first(weather.val) ELSE weather
                  desc == IF first.ok THEN py_getitem(first.val, "description") ELSE first
                  rain == py_times100(dict_get(day, "pop", JNum(0)))
                  vmin == IF tmin.ok THEN float_field(tmin.val) ELSE tmin
                  vmax == IF tmax.ok THEN float_field(tmax.val) ELSE tmax
                  vdesc == IF desc.ok THEN str_field(desc.val) ELSE desc
                  vrain == IF rain.ok THEN float_field(rain.val) ELSE rain
              IN  CASE ~tmin.ok -> Err(tmin.exc)
                    [] tmin.ok /\ ~tmax.ok -> Err(tmax.exc)
                    [] tmin.ok /\ tmax.ok /\ ~desc.ok -> Err(desc.exc)
                    [] tmin.ok /\ tmax.ok /\ desc.ok /\ ~rain.ok -> Err(rain.exc)
                    [] tmin.ok /\ tmax.ok /\ desc.ok /\ rain.ok
                       /\ ~(vmin.ok /\ vmax.ok /\ vdesc.ok /\ vrain.ok) ->
                         Err("ValidationError")
                    [] OTHER ->
                         Ok([keep |-> TRUE,
                             forecast |-> WeatherForecast(strftime(forecast_date),
                                            vmin.val, vmax.val, <<vdesc.val>>,
                                            vrain.val)])

RECURSIVE forecast_loop(_, _, _, _, _)
\* for day in daily_forecasts: ..., from entry i on.
forecast_loop(days, i, start_date, end_date, acc) ==
    IF i > Len(days) THEN Ok(acc)
    ELSE LET f == forecast_of(days[i], start_date, end_date) IN
         IF ~f.ok THEN Err(f.exc)
         ELSE forecast_loop(days, i + 1, start_date, end_date,
                            IF f.val.keep THEN Append(acc, f.val.forecast) ELSE acc)

Call(fn, api_key, resp) == [fn |-> fn, api_key |-> api_key, response |-> resp]

\* get_weather_data(location, start_date, end_date, api_key) at time now_,
\* with config_key = get_config().openweather_api_key, when the provider
\* answers the coordinate lookup with coord_resp and the forecast fetch with
\* forecast_resp: the outcome and the outbound calls made.
get_weather_data(location, start_date, end_date, api_key, now_, config_key, coord_resp, forecast_resp) ==
    LET key == IF api_key = NoKey THEN config_key ELSE api_key
        days_until_travel == DeltaDays(start_date, now_)
        lookup == days_until_travel <= 7 /\ KeyTruthy(key)
        coords == get_coordinates(coord_resp)
        fetch == lookup /\ coords.ok
        daily_forecasts == py_iter(fetch_forecast(forecast_resp))
        found == IF fetch
                 THEN forecast_loop(daily_forecasts.val, 1, start_date, end_date, <<>>)
                 ELSE Ok(<<>>)
        made == (IF lookup THEN <<Call("get_coordinates", key[1], coord_resp)>> ELSE <<>>)
             \o (IF fetch THEN <<Call("fetch_forecast", key[1], forecast_resp)>> ELSE <<>>)
    IN  [calls |-> made,
         result |->
            IF ~found.ok THEN Raised(found.exc)
            ELSE IF Len(found.val) = 0
            THEN Returned([WeatherData(location) EXCEPT
                             !.forecasts = <<get_seasonal_estimate(start_date.month)>>,
                             !.is_seasonal_estimate = TRUE])
            ELSE Returned([WeatherData(location) EXCEPT !.forecasts = found.val])]

\* ----------------------------------------------------------- config
Config(ai_provider, openai_api_key, deepseek_api_key, openweather_api_key) ==
    [ai_provider |-> ai_provider,
     openai_api_key |-> openai_api_key, openai_model |-> "gpt-4-turbo-preview",
     deepseek_api_key |-> deepseek_api_key, deepseek_model |-> "deepseek-chat",
     glm_api_key |-> NoKey, glm_model |-> "glm-4",
     gemini_api_key |-> NoKey, gemini_model |-> "gemini-pro",
     anthropic_api_key |-> NoKey, anthropic_model |-> "claude-3-sonnet-20240229",
     openweather_api_key |-> openweather_api_key,
     default_luggage_volume |-> F(39), packing_cube_volume |-> F(9)]

Providers == {"openai", "deepseek", "glm", "gemini", "anthropic"}

ConfigOff == config = Config("deepseek", NoKey, NoKey, NoKey)

\* -------------------------------------------------- the weather's runs
\* One daily entry of the provider for the given instant; the temperatures
\* tell the days apart.
Entry(day, tod, pop) ==
    JObj(<<KV("dt", JNum(Timestamp(day, tod))),
           KV("temp", JObj(<<KV("min", JNum(F(day))), KV("max", JNum(F(day + 10)))>>)),
           KV("weather", JArr(<<JObj(<<KV("description", JStr("light rain"))>>)>>))>>
         \o OptPair("pop", pop))

\* n daily entries from day first on, all at the same instant of their day.
Daily(first, tod, n) == [i \in 1..n |-> Entry(first + i - 1, tod, <<JNum(64)>>)]

DailyBody(daily) == HttpResponse(200, JObj(<<KV("daily", daily)>>))

\* What the provider may answer to the coordinate lookup.
CoordResponses ==
    { HttpRaised, HttpText(200), HttpResponse(404, JObj(<<>>)),
      HttpResponse(200, JObj(<<KV("cod", JNum(F(200)))>>)),
      HttpResponse(200, JObj(<<KV("coord", JObj(<<KV("lat", JNum(F(48))),
                                                 KV("lon", JNum(F(2)))>>))>>)) }

\* Daily entries that are malformed or lack a field, dated tomorrow.
MalformedEntries ==
    { JObj(<<>>),
      JNull,
      JObj(<<KV("dt", JStr("soon"))>>),
      JObj(<<KV("dt", JNum(Timestamp(1, 0)))>>),
      JObj(<<KV("dt", JNum(Timestamp(1, 0))), KV("temp", JObj(<<KV("min", JNum(F(3)))>>))>>),
      JObj(<<KV("dt", JNum(Timestamp(1, 0))),
             KV("temp", JObj(<<KV("min", JNum(F(3))), KV("max", JNum(F(9)))>>)),
             KV("weather", JArr(<<>>))>>),
      JObj(<<KV("dt", JNum(Timestamp(1, 0))),
             KV("temp", JObj(<<KV("min", JNull), KV("max", JNum(F(9)))>>)),
             KV("weather", JArr(<<JObj(<<KV("description", JStr("fog"))>>)>>))>>),
      JObj(<<KV("dt", JNum(Timestamp(1, 0))),
             KV("temp", JObj(<<KV("min", JNum(F(3))), KV("max", JNum(F(9)))>>)),
             KV("weather", JArr(<<JObj(<<KV("description", JStr("fog"))>>)>>)),
             KV("pop", JNull)>>) }

\* What the provider may answer to the forecast fetch: failures, bodies
\* without a usable daily list, forecasts of 1, 4 and 8 days from today on,
\* entries without pop, and lists with a malformed entry.
ForecastResponses ==
    { HttpRaised, HttpText(200), HttpResponse(500, JObj(<<>>)),
      HttpResponse(200, JObj(<<>>)), HttpResponse(200, JArr(<<>>)),
      DailyBody(JNull), DailyBody(JStr("n/a")), DailyBody(JArr(<<>>)),
      DailyBody(JArr(<<Entry(0, 0, <<>>), Entry(1, 0, <<>>)>>)) }
    \cup {DailyBody(JArr(Daily(0, tod, n))) : tod \in 0..(TicksPerDay - 1), n \in {1, 4, 8}}
    \cup {DailyBody(JArr(<<Entry(0, 0, <<JNum(0)>>), e>>)) : e \in MalformedEntries}

Months == 1..12

WeatherOff ==
    /\ now = DateTime(0, 0, 0)
    /\ weather_args = [location |-> "", start_date |-> DateTime(0, 0, 1),
                       end_date |-> DateTime(0, 0, 1), api_key |-> NoKey]
    /\ calls = <<>> /\ weather_result = Idle /\ estimate = Idle

\* ------------------------------------------------------ AI providers
\* generate raised RuntimeError(f"{source}: {upstream}"): upstream is the
\* exchange the error text is built from.
ProviderError(source, upstream) ==
    [status |-> "raised", exc |-> "RuntimeError", source |-> source,
     upstream |-> upstream, value |-> JNull]
ProviderRaised(exc) ==
    [status |-> "raised", exc |-> exc, source |-> "", upstream |-> HttpRaised,
     value |-> JNull]
ProviderReturned(v) ==
    [status |-> "returned", exc |-> "", source |-> "", upstream |-> HttpRaised,
     value |-> v]

\* x or ""
OrEmpty(x) == IF Truthy(x) THEN x ELSE JStr("")

\* OpenAIProvider.generate(prompt) when the endpoint does resp. The client
\* raises on a timeout and on an error status; of a 200 it hands back the
\* body, an absent attribute of an object reading None. A choices that
\* cannot be indexed, a first choice that is no object and a message that
\* is no object raise inside the try block, like every other failure.
OpenAIProvider_generate(cfg, prompt_, resp) ==
    IF resp.raised \/ resp.status_code # 200 \/ ~resp.json \/ resp.body.k # "obj"
    THEN ProviderError("OpenAI API error", resp)
    ELSE LET choices == dict_get(resp.body, "choices", JNull)
             first == py_first(choices)
             message == IF first.ok /\ first.val.k = "obj"
                        THEN dict_get(first.val, "message", JNull) ELSE JNull
         IN  IF ~Truthy(choices) THEN ProviderReturned(JStr(""))
             ELSE IF ~first.ok \/ first.val.k # "obj"
             THEN ProviderError("OpenAI API error", resp)
             ELSE IF ~Truthy(message) THEN ProviderReturned(JStr(""))
             ELSE IF message.k # "obj" THEN ProviderError("OpenAI API error", resp)
             ELSE ProviderReturned(OrEmpty(dict_get(message, "content", JNull)))

\* DeepSeekProvider.generate(prompt) when the endpoint does resp.
DeepSeekProvider_generate(cfg, prompt_, resp) ==
    IF resp.raised \/ (resp.status_code = 200 /\ ~resp.json)
    THEN ProviderError("DeepSeek API request failed", resp)
    ELSE IF resp.status_code = 200 /\ resp.body.k # "obj"
    THEN ProviderRaised("AttributeError")
    ELSE IF resp.status_code = 200 /\ Truthy(dict_get(resp.body, "choices", JNull))
    THEN LET first == py_first(dict_get(resp.body, "choices", JNull)) IN
         IF ~first.ok THEN ProviderRaised(first.exc)
         ELSE IF first.val.k # "obj" THEN ProviderRaised("AttributeError")
         ELSE LET message == dict_get(first.val, "message", JObj(<<>>)) IN
              IF message.k # "obj" THEN ProviderRaised("AttributeError")
              ELSE ProviderReturned(dict_get(message, "content", JStr("")))
    ELSE ProviderError("DeepSeek API error", resp)

\* get_provider(config): the class of the provider built.
get_provider(cfg) ==
    IF cfg.ai_provider = "openai" THEN "OpenAIProvider" ELSE "DeepSeekProvider"

\* get_provider(config).generate(prompt)
generate(cfg, prompt_, resp) ==
    IF get_provider(cfg) = "OpenAIProvider"
    THEN OpenAIProvider_generate(cfg, prompt_, resp)
    ELSE DeepSeekProvider_generate(cfg, prompt_, resp)

\* ------------------------------------------------ the providers' runs
Completion(content) == JObj(<<KV("message", JObj(<<KV("content", content)>>))>>)
ChoicesBody(choices) == HttpResponse(200, JObj(<<KV("choices", choices)>>))

\* What the endpoint may do: time out, refuse, answer with completions, with
\* none, or with a completion that has no text.
Exchanges ==
    { HttpRaised,
      HttpResponse(401, JObj(<<KV("error", JStr("invalid api key"))>>)),
      HttpResponse(500, JObj(<<>>)),
      HttpResponse(200, JObj(<<>>)),
      ChoicesBody(JArr(<<>>)),
      ChoicesBody(JArr(<<Completion(JStr("Pack light."))>>)),
      ChoicesBody(JArr(<<Completion(JStr("First answer.")),
                         Completion(JStr("Second answer."))>>)),
      ChoicesBody(JArr(<<Completion(JStr(""))>>)),
      ChoicesBody(JArr(<<Completion(JNull)>>)),
      ChoicesBody(JArr(<<JObj(<<>>)>>)) }

InitProvider ==
    /\ \E p \in Providers, ok \in {NoKey, <<"sk-openai">>}, dk \in {NoKey, <<"sk-deepseek">>} :
         config = Config(p, ok, dk, <<"ow-key">>)
    /\ prompt \in {"Paris, 3 days", "Oslo, 10 days"}
    /\ remote = Idle
    /\ generate_result = Idle

\* get_provider(config).generate(prompt) is called and the endpoint does
\* what it likes.
Generate ==
    /\ generate_result.status = "idle"
    /\ \E resp \in Exchanges :
         /\ remote' = [status |-> "done", exchange |-> resp]
         /\ generate_result' = generate(config, prompt, resp)
    /\ UNCHANGED <<config, prompt>>

ProviderOff == prompt = "" /\ remote = Idle /\ generate_result = Idle

\* ------------------------------------------------------- trips (models.py)
\* A datetime.date of 2025.
Date(month, day) == [month |-> month, day |-> day]

\* The days of the months of 2025.
DaysInMonth(month) ==
    CASE month \in {1, 3, 5, 7, 8, 10, 12} -> 31
      [] month \in {4, 6, 9, 11} -> 30
      [] OTHER -> 28

RECURSIVE DaysBeforeMonth(_)
DaysBeforeMonth(month) ==
    IF month = 1 THEN 0 ELSE DaysBeforeMonth(month - 1) + DaysInMonth(month - 1)

\* date.toordinal(), counted from the last day of 2024.
toordinal(d) == DaysBeforeMonth(d.month) + d.day

\* (a - b).days for two dates.
date_sub_days(a, b) == toordinal(a) - toordinal(b)

\* start < end for two dates
date_lt(a, b) == toordinal(a) < toordinal(b)

\* TripDestination(location, start_date, end_date): no validator, any two
\* dates are accepted.
TripDestination(location, start_date, end_date) ==
    [location |-> location, start_date |-> start_date, end_date |-> end_date]

\* TravelerInfo(gender, age, clothing_size, shoe_size): age is an
\* Optional[int], <<>> for None. The model ignores any other keyword.
TravelerInfo(gender, age, clothing_size, shoe_size) ==
    [gender |-> gender, age |-> age, clothing_size |-> clothing_size,
     shoe_size |-> shoe_size]

LaundryInfo(available) == [available |-> available, date_ranges |-> <<>>]

\* TripInfo(...): the model ignores any other keyword.
TripInfo(destinations, traveler, activities, additional_notes, laundry, luggage_volume_liters) ==
    [destinations |-> destinations, traveler |-> traveler, activities |-> activities,
     additional_notes |-> additional_notes, laundry |-> laundry,
     luggage_volume_liters |-> luggage_volume_liters]

\* Mutant of duration_days: the last day is not counted.
duration_days_exclusive(self) == date_sub_days(self.end_date, self.start_date)

\* TripDestination.duration_days
duration_days(self) == date_sub_days(self.end_date, self.start_date) + 1

RECURSIVE py_sum(_, _)
\* sum(...) of a list of ints
py_sum(xs, i) == IF i > Len(xs) THEN 0 ELSE xs[i] + py_sum(xs, i + 1)

\* TripInfo.total_duration_days
total_duration_days(self) ==
    py_sum([i \in 1..Len(self.destinations) |-> duration_days(self.destinations[i])], 1)

\* TripInfo.locations
locations(self) == [i \in 1..Len(self.destinations) |-> self.destinations[i].location]


\* ------------------------------------------------------------ prompts.py
\* One line of text: the literal text of an f-string and the values put in.
Line(text, values) == [text |-> text, values |-> values]

\* obj.name: the attribute, or AttributeError when the object has none.
py_getattr(obj, name) ==
    IF name \in DOMAIN obj THEN Ok(obj[name]) ELSE Err("AttributeError")

\* The figure f"{x:.0f}" prints: the sign and the units, the value rounded
\* to the nearest integer, a tie going to the even one; -0.25 prints "-0".
Fmt0f(x) ==
    LET a == IF x >= 0 THEN x ELSE -x
        q == a \div 128
        r == a % 128
        up == r > 64 \/ (r = 64 /\ q % 2 = 1)
    IN  [neg |-> x < 0, units |-> IF up THEN q + 1 ELSE q]

\* The lines of format_trip_details up to the traveler's shoe size.
trip_lines(trip_info) ==
    LET traveler == trip_info.traveler IN
    <<Line("**Destinations:**", <<>>)>>
    \o [i \in 1..Len(trip_info.destinations) |->
          LET dest == trip_info.destinations[i] IN
          Line("- {location}: {start_date} to {end_date} ({duration_days} days)",
               <<dest.location, dest.start_date, dest.end_date, duration_days(dest)>>)]
    \o <<Line("\n**Total Duration:** {total_duration_days} days",
              <<total_duration_days(trip_info)>>)>>
    \o (IF traveler.gender # "" THEN <<Line("**Gender:** {gender}", <<traveler.gender>>)>>
        ELSE <<>>)
    \o (IF traveler.age # <<>> /\ traveler.age # <<0>>
        THEN <<Line("**Age:** {age}", <<traveler.age[1]>>)>> ELSE <<>>)
    \o (IF traveler.clothing_size # ""
        THEN <<Line("**Clothing Size:** {clothing_size}", <<traveler.clothing_size>>)>>
        ELSE <<>>)
    \o (IF traveler.shoe_size # ""
        THEN <<Line("**Shoe Size:** {shoe_size}", <<traveler.shoe_size>>)>> ELSE <<>>)

\* format_trip_details(trip_info): the lines, or the exception raised.
format_trip_details(trip_info) ==
    LET sleepwear == py_getattr(trip_info.traveler, "sleepwear")
        luggage_name == py_getattr(trip_info, "luggage_name")
    IN  IF ~sleepwear.ok THEN Raised(sleepwear.exc)
        ELSE IF ~luggage_name.ok THEN Raised(luggage_name.exc)
        ELSE Returned(
            trip_lines(trip_info)
            \o (IF sleepwear.val # ""
                THEN <<Line("**Sleepwear Preference:** {sleepwear} (dedicated=pack pajamas, minimal=use underwear/undershirt, none=sleep naked)",
                            <<sleepwear.val>>)>>
                ELSE <<>>)
            \o (IF trip_info.activities # ""
                THEN <<Line("**Activities:** {activities}", <<trip_info.activities>>)>>
                ELSE <<>>)
            \o <<Line("**Laundry Available:** {laundry_status}",
                      <<IF trip_info.laundry.available THEN "Yes" ELSE "No">>)>>
            \o <<Line("**Luggage:** {luggage_volume_liters}L",
                      <<trip_info.luggage_volume_liters>>
                      \o (IF luggage_name.val # "" THEN <<luggage_name.val>> ELSE <<>>))>>)

\* The lines of one location of format_weather_details.
weather_lines(location, weather) ==
    <<Line("**{location}:**", <<location>>)>>
    \o [i \in 1..Len(weather.forecasts) |->
          LET forecast == weather.forecasts[i] IN
          Line("  - {date}: {temp_min}C to {temp_max}C, {description}, {rain_pct} rain",
               <<forecast.date, forecast.temp_min, forecast.temp_max, forecast.description,
                 IF forecast.rain_chance # 0
                 THEN Line("{rain_chance:.0f}%", <<Fmt0f(forecast.rain_chance)>>)
                 ELSE Line("0%", <<>>)>>)]
    \o (IF weather.is_seasonal_estimate
        THEN <<Line("  *(seasonal estimate - trip is >7 days away)*", <<>>)>> ELSE <<>>)

RECURSIVE format_weather_details(_, _)
\* format_weather_details(weather_by_location): the dict is a sequence of
\* key / val pairs in insertion order, read from pair i on.
format_weather_details(weather_by_location, i) ==
    IF i > Len(weather_by_location) THEN <<>>
    ELSE weather_lines(weather_by_location[i].key, weather_by_location[i].val)
         \o format_weather_details(weather_by_location, i + 1)

\* build_prompt(trip_info, weather_data): the template with its three
\* fields, or the exception raised.
build_prompt(trip_info, weather_data) ==
    LET additional == IF trip_info.additional_notes # ""
                      THEN <<Line("## Additional Notes\n{additional_notes}",
                                  <<trip_info.additional_notes>>)>>
                      ELSE <<>>
        trip_details == format_trip_details(trip_info)
    IN  IF trip_details.status = "raised" THEN Raised(trip_details.exc)
        ELSE Returned([template |-> "PACKING_PROMPT",
                       trip_details |-> trip_details.value,
                       weather_details |-> format_weather_details(weather_data, 1),
                       additional_notes |-> additional])

\* ------------------------------------------------------- the trip's runs
\* What the last operation on the trip was and gave.
TripOp(op, index, number, names, outcome, weather) ==
    [status |-> "done", op |-> op, index |-> index, number |-> number, names |-> names,
     outcome |-> outcome, weather |-> weather]

\* The dates of the model's trips: the last day of June, the first and the
\* last of July.
TripDates == {Date(6, 30), Date(7, 1), Date(7, 31)}

\* Every destination of the model, also those that end before they start.
Destinations ==
    {TripDestination(l, s, e) : l \in {"Paris", "Rome"}, s \in TripDates, e \in TripDates}

Travelers == {TravelerInfo("", <<>>, "", ""), TravelerInfo("male", <<30>>, "M", "US 10")}

\* The weather maps handed to build_prompt.
WeatherMaps ==
    { <<>>,
      <<KV("Paris", [WeatherData("Paris") EXCEPT
                        !.forecasts = <<get_seasonal_estimate(7)>>,
                        !.is_seasonal_estimate = TRUE])>>,
      <<KV("Paris", [WeatherData("Paris") EXCEPT
                        !.forecasts = <<WeatherForecast(strftime(DateTime(2, 0, 7)), F(18),
                                                        F(25), <<"light rain">>, F(62) + 64)>>])>> }

InitTrip ==
    /\ \E n \in 0..MaxDestinations : \E ds \in [1..n -> Destinations] :
       \E t \in Travelers, notes \in {"", "No checked bag"} :
         trip = TripInfo(ds, t, "", notes, LaundryInfo(FALSE), F(39))
    /\ trip_op = Idle

\* trip.destinations[i].duration_days is read.
DurationDays ==
    /\ trip_op.status = "idle"
    /\ \E i \in 1..Len(trip.destinations) :
         trip_op' = TripOp("duration_days", i, duration_days(trip.destinations[i]), <<>>,
                           Idle, <<>>)
    /\ UNCHANGED trip

\* trip.total_duration_days is read.
TotalDurationDays ==
    /\ trip_op.status = "idle"
    /\ trip_op' = TripOp("total_duration_days", 0, total_duration_days(trip), <<>>, Idle, <<>>)
    /\ UNCHANGED trip

\* trip.locations is read.
Locations ==
    /\ trip_op.status = "idle"
    /\ trip_op' = TripOp("locations", 0, 0, locations(trip), Idle, <<>>)
    /\ UNCHANGED trip

\* build_prompt(trip, weather_data) is called.
BuildPrompt ==
    /\ trip_op.status = "idle"
    /\ \E weather_data \in WeatherMaps :
         trip_op' = TripOp("build_prompt", 0, 0, <<>>, build_prompt(trip, weather_data),
                           weather_data)
    /\ UNCHANGED trip

NoTrip == TripInfo(<<>>, TravelerInfo("", <<>>, "", ""), "", "", LaundryInfo(FALSE), F(39))
TripOff == trip = NoTrip /\ trip_op = Idle

\* ------------------------------------------------------------ config.py
\* The environment variables Config.load reads.
EnvNames ==
    {"AI_PROVIDER", "OPENAI_API_KEY", "OPENAI_MODEL", "DEEPSEEK_API_KEY",
     "DEEPSEEK_MODEL", "GLM_API_KEY", "GLM_MODEL", "GEMINI_API_KEY", "GEMINI_MODEL",
     "ANTHROPIC_API_KEY", "ANTHROPIC_MODEL", "OPENWEATHER_API_KEY",
     "DEFAULT_LUGGAGE_VOLUME", "PACKING_CUBE_VOLUME"}

\* No variable set.
EmptyEnv == [n \in EnvNames |-> <<>>]

\* load_dotenv(): the variables of the .env file that the environment does
\* not set are added to it; those it sets keep their value.
load_dotenv(env, file) == [n \in EnvNames |-> IF env[n] = <<>> THEN file[n] ELSE env[n]]

\* os.getenv(name, default): default is an Optional[str] too.
os_getenv(env, name, default) == IF env[name] = <<>> THEN default ELSE env[name]

\* Mutant of str_lower: the value is taken as it is written.
str_lower_asis(s) == s

\* str.lower() on the provider names the model's environments hold.
str_lower(s) ==
    CASE s = "OpenAI" -> "openai"
      [] s = "DEEPSEEK" -> "deepseek"
      [] s = "GLM" -> "glm"
      [] s = "Gemini" -> "gemini"
      [] OTHER -> s

\* Config.load(): the Config, or the ValueError of float().
Config_load(env0, file) ==
    LET env == load_dotenv(env0, file)
        given == str_lower(os_getenv(env, "AI_PROVIDER", <<"deepseek">>)[1])
        ai_provider == IF given \notin {"openai", "deepseek", "glm", "gemini", "anthropic"}
                       THEN "deepseek" ELSE given
        luggage == py_float(JStr(os_getenv(env, "DEFAULT_LUGGAGE_VOLUME", <<"39">>)[1]))
        cube == py_float(JStr(os_getenv(env, "PACKING_CUBE_VOLUME", <<"9">>)[1]))
    IN  IF ~luggage.ok THEN Err(luggage.exc)
        ELSE IF ~cube.ok THEN Err(cube.exc)
        ELSE Ok([ai_provider |-> ai_provider,
                 openai_api_key |-> os_getenv(env, "OPENAI_API_KEY", <<>>),
                 openai_model |-> os_getenv(env, "OPENAI_MODEL", <<"gpt-4-turbo-preview">>)[1],
                 deepseek_api_key |-> os_getenv(env, "DEEPSEEK_API_KEY", <<>>),
                 deepseek_model |-> os_getenv(env, "DEEPSEEK_MODEL", <<"deepseek-chat">>)[1],
                 glm_api_key |-> os_getenv(env, "GLM_API_KEY", <<>>),
                 glm_model |-> os_getenv(env, "GLM_MODEL", <<"glm-4">>)[1],
                 gemini_api_key |-> os_getenv(env, "GEMINI_API_KEY", <<>>),
                 gemini_model |-> os_getenv(env, "GEMINI_MODEL", <<"gemini-pro">>)[1],
                 anthropic_api_key |-> os_getenv(env, "ANTHROPIC_API_KEY", <<>>),
                 anthropic_model |->
                     os_getenv(env, "ANTHROPIC_MODEL", <<"claude-3-sonnet-20240229">>)[1],
                 openweather_api_key |-> os_getenv(env, "OPENWEATHER_API_KEY", <<>>),
                 default_luggage_volume |-> luggage.val,
                 packing_cube_volume |-> cube.val])

\* One error of Config.validate: the variable it names and the rest of its text.
ConfigError(names, text) == [names |-> names, text |-> text]

\* An error when the condition holds, nothing otherwise.
ErrorIf(cond, error) == IF cond THEN <<error>> ELSE <<>>

\* Mutant of Config_validate: the key of every provider is required.
Config_validate_every(self) ==
    ErrorIf(~KeyTruthy(self.openweather_api_key),
            ConfigError("OPENWEATHER_API_KEY", " is required"))
    \o ErrorIf(~KeyTruthy(self.openai_api_key),
               ConfigError("OPENAI_API_KEY", " is required when using OpenAI provider"))
    \o ErrorIf(~KeyTruthy(self.deepseek_api_key),
               ConfigError("DEEPSEEK_API_KEY", " is required when using DeepSeek provider"))
    \o ErrorIf(~KeyTruthy(self.glm_api_key),
               ConfigError("GLM_API_KEY", " is required when using GLM provider"))
    \o ErrorIf(~KeyTruthy(self.gemini_api_key),
               ConfigError("GEMINI_API_KEY", " is required when using Gemini provider"))
    \o ErrorIf(~KeyTruthy(self.anthropic_api_key),
               ConfigError("ANTHROPIC_API_KEY", " is required when using Anthropic provider"))

\* Config.validate(): the list of errors.
Config_validate(self) ==
    ErrorIf(~KeyTruthy(self.openweather_api_key),
            ConfigError("OPENWEATHER_API_KEY", " is required"))
    \o ErrorIf(self.ai_provider = "openai" /\ ~KeyTruthy(self.openai_api_key),
               ConfigError("OPENAI_API_KEY", " is required when using OpenAI provider"))
    \o ErrorIf(self.ai_provider = "deepseek" /\ ~KeyTruthy(self.deepseek_api_key),
               ConfigError("DEEPSEEK_API_KEY", " is required when using DeepSeek provider"))
    \o ErrorIf(self.ai_provider = "glm" /\ ~KeyTruthy(self.glm_api_key),
               ConfigError("GLM_API_KEY", " is required when using GLM provider"))
    \o ErrorIf(self.ai_provider = "gemini" /\ ~KeyTruthy(self.gemini_api_key),
               ConfigError("GEMINI_API_KEY", " is required when using Gemini provider"))
    \o ErrorIf(self.ai_provider = "anthropic" /\ ~KeyTruthy(self.anthropic_api_key),
               ConfigError("ANTHROPIC_API_KEY", " is required when using Anthropic provider"))

\* x or "" for an Optional[str] x.
OrEmptyStr(x) == IF KeyTruthy(x) THEN x[1] ELSE ""

\* Config.get_active_api_key()
Config_get_active_api_key(self) ==
    LET keys == [openai |-> self.openai_api_key, deepseek |-> self.deepseek_api_key,
                 glm |-> self.glm_api_key, gemini |-> self.gemini_api_key,
                 anthropic |-> self.anthropic_api_key]
    IN  OrEmptyStr(IF self.ai_provider \in DOMAIN keys THEN keys[self.ai_provider]
                   ELSE <<"">>)

\* Config.get_active_model()
Config_get_active_model(self) ==
    LET models == [openai |-> self.openai_model, deepseek |-> self.deepseek_model,
                   glm |-> self.glm_model, gemini |-> self.gemini_model,
                   anthropic |-> self.anthropic_model]
    IN  IF self.ai_provider \in DOMAIN models THEN models[self.ai_provider]
        ELSE self.deepseek_model


\* ----------------------------------------------------- the config's runs
\* No Config at hand yet.
Unloaded == [status |-> "unloaded"]
IsConfig(c) == "ai_provider" \in DOMAIN c

\* What the last operation of the config module was and gave: n counts the
\* operations so far, first is the Config the first successful get_config
\* returned, resets counts the reset_config calls (ghosts).
ConfigOp(op, ok, loaded, errors, text, n, first, resets) ==
    [status |-> "done", op |-> op, ok |-> ok, loaded |-> loaded, errors |-> errors,
     text |-> text, n |-> n, first |-> first, resets |-> resets]
NoConfigOp == ConfigOp("", TRUE, FALSE, <<>>, "", 0, <<>>, 0)

\* A .env file that names a provider and two keys.
DotenvFile ==
    [EmptyEnv EXCEPT !["AI_PROVIDER"] = <<"Gemini">>,
                     !["GEMINI_API_KEY"] = <<"gm-key">>,
                     !["OPENWEATHER_API_KEY"] = <<"file-key">>]

InitConfig ==
    /\ \E p \in {<<>>, <<"openai">>, <<"OpenAI">>, <<"deepseek">>, <<"GLM">>, <<"Gemini">>,
                 <<"anthropic">>, <<"mistral">>},
          oa \in {<<>>, <<"">>, <<"oa-key">>}, ds \in {<<>>, <<"ds-key">>},
          glm \in {<<>>, <<"glm-key">>}, an \in {<<>>, <<"an-key">>},
          ow \in {<<>>, <<"">>, <<"ow-key">>}, om \in {<<>>, <<"gpt-4o">>},
          lv \in {<<>>, <<"45">>, <<"big">>} :
         environ = [EmptyEnv EXCEPT !["AI_PROVIDER"] = p, !["OPENAI_API_KEY"] = oa,
                                    !["DEEPSEEK_API_KEY"] = ds, !["GLM_API_KEY"] = glm,
                                    !["ANTHROPIC_API_KEY"] = an,
                                    !["OPENWEATHER_API_KEY"] = ow,
                                    !["OPENAI_MODEL"] = om,
                                    !["DEFAULT_LUGGAGE_VOLUME"] = lv]
    /\ dotenv \in {EmptyEnv, DotenvFile}
    /\ config = Unloaded
    /\ global_config = <<>>
    /\ config_op = NoConfigOp
    /\ loads = 0

\* config = Config.load()
ConfigLoad ==
    /\ config = Unloaded
    /\ LET out == Config_load(environ, dotenv) IN
         /\ config' = IF out.ok THEN out.val ELSE [status |-> "raised", exc |-> out.exc]
         /\ config_op' = ConfigOp("load", out.ok, TRUE, <<>>, "", 1, <<>>, 0)
    /\ environ' = load_dotenv(environ, dotenv)
    /\ UNCHANGED <<dotenv, global_config, loads>>

\* config.validate()
ConfigValidate ==
    /\ IsConfig(config)
    /\ config_op' = ConfigOp("validate", TRUE, FALSE, Config_validate(config), "",
                             2, <<>>, 0)
    /\ UNCHANGED <<config, environ, dotenv, global_config, loads>>

\* config.get_active_api_key()
ConfigGetActiveApiKey ==
    /\ IsConfig(config)
    /\ config_op' = ConfigOp("get_active_api_key", TRUE, FALSE, <<>>,
                             Config_get_active_api_key(config), 2, <<>>, 0)
    /\ UNCHANGED <<config, environ, dotenv, global_config, loads>>

\* config.get_active_model()
ConfigGetActiveModel ==
    /\ IsConfig(config)
    /\ config_op' = ConfigOp("get_active_model", TRUE, FALSE, <<>>,
                             Config_get_active_model(config), 2, <<>>, 0)
    /\ UNCHANGED <<config, environ, dotenv, global_config, loads>>

\* --------------------------------------------- the global configuration
\* get_config(): what _config holds afterwards, what the call gives, whether
\* Config.load ran, and the environment afterwards.
get_config(stored, env, file) ==
    IF stored = <<>>
    THEN LET out == Config_load(env, file) IN
         [stored |-> IF out.ok THEN <<out.val>> ELSE stored,
          result |-> out, loaded |-> TRUE, env |-> load_dotenv(env, file)]
    ELSE [stored |-> stored, result |-> Ok(stored[1]), loaded |-> FALSE, env |-> env]

\* reset_config(): what _config holds afterwards.
reset_config(stored) == <<>>

InitSingleton ==
    /\ \E p \in {<<>>, <<"openai">>}, ow \in {<<>>, <<"ow-key">>}, lv \in {<<>>, <<"big">>} :
         environ = [EmptyEnv EXCEPT !["AI_PROVIDER"] = p, !["OPENWEATHER_API_KEY"] = ow,
                                    !["DEFAULT_LUGGAGE_VOLUME"] = lv]
    /\ dotenv \in {EmptyEnv, DotenvFile}
    /\ config = Unloaded
    /\ global_config = <<>>
    /\ config_op = NoConfigOp
    /\ loads = 0

\* get_config() is called.
GetConfig ==
    /\ config_op.n < MaxConfigOps
    /\ LET out == get_config(global_config, environ, dotenv) IN
         /\ global_config' = out.stored
         /\ environ' = out.env
         /\ loads' = IF out.loaded THEN loads + 1 ELSE loads
         /\ config' = IF out.result.ok THEN out.result.val
                      ELSE [status |-> "raised", exc |-> out.result.exc]
         /\ config_op' = ConfigOp("get_config", out.result.ok, out.loaded, <<>>, "",
                                  config_op.n + 1,
                                  IF config_op.first = <<>> /\ out.result.ok
                                  THEN <<out.result.val>> ELSE config_op.first,
                                  config_op.resets)
    /\ UNCHANGED dotenv

\* reset_config() is called.
ResetConfig ==
    /\ config_op.n < MaxConfigOps
    /\ global_config' = reset_config(global_config)
    /\ config_op' = ConfigOp("reset_config", TRUE, FALSE, <<>>, "", config_op.n + 1,
                             config_op.first, config_op.resets + 1)
    /\ UNCHANGED <<config, environ, dotenv, loads>>

\* Config is a dataclass that is not frozen: whoever holds the object
\* get_config() returned can assign a field of it, and the object stored
\* is that object.
AssignField ==
    /\ config_op.n < MaxConfigOps
    /\ global_config # <<>>
    /\ \E value \in {<<"written-key">>} :
         /\ global_config[1].openweather_api_key # value
         /\ global_config' = <<[global_config[1] EXCEPT !.openweather_api_key = value]>>
         /\ config' = [global_config[1] EXCEPT !.openweather_api_key = value]
    /\ config_op' = ConfigOp("setattr", TRUE, FALSE, <<>>, "", config_op.n + 1,
                             config_op.first, config_op.resets)
    /\ UNCHANGED <<environ, dotenv, loads>>

\* The changes of the environment between two calls.
EnvChanges ==
    {<<"AI_PROVIDER", <<>>>>, <<"AI_PROVIDER", <<"openai">>>>, <<"AI_PROVIDER", <<"GLM">>>>,
     <<"OPENWEATHER_API_KEY", <<>>>>, <<"OPENWEATHER_API_KEY", <<"ow-key">>>>,
     <<"DEFAULT_LUGGAGE_VOLUME", <<"45">>>>}

\* The environment changes: one variable is set or unset.
SetEnv ==
    /\ config_op.n < MaxConfigOps
    /\ \E change \in EnvChanges :
         /\ environ[change[1]] # change[2]
         /\ environ' = [environ EXCEPT ![change[1]] = change[2]]
    /\ config_op' = ConfigOp("setenv", TRUE, FALSE, <<>>, "", config_op.n + 1,
                             config_op.first, config_op.resets)
    /\ UNCHANGED <<config, dotenv, global_config, loads>>

\* ------------------------------------- the weather lookup and its key
\* A trip of a day or more, or with its dates the wrong way round, that starts
\* at midnight (as the dates the CLI passes do) within MaxStartDay days;
\* the call is made some time today. The environment holds the weather key
\* or not, and the global configuration is loaded from it already (as in
\* main) or not yet.
InitWeather ==
    /\ \E tod \in 0..(TicksPerDay - 1) : now = DateTime(0, tod, 0)
    /\ \E key \in {NoKey, <<"ow-key">>}, loaded \in BOOLEAN :
         /\ environ = [EmptyEnv EXCEPT !["OPENWEATHER_API_KEY"] = key]
         /\ global_config = IF loaded THEN <<Config_load(environ, EmptyEnv).val>> ELSE <<>>
         /\ config = IF loaded THEN Config_load(environ, EmptyEnv).val ELSE Unloaded
         /\ loads = IF loaded THEN 1 ELSE 0
    /\ dotenv = EmptyEnv
    /\ config_op = NoConfigOp
    /\ \E day \in (-1)..MaxStartDay, len \in (-1)..MaxTripDays, month \in {1, 4, 7, 10},
          key \in {NoKey, <<"">>, <<"arg-key">>} :
         weather_args = [location |-> "Paris",
                         start_date |-> DateTime(day, 0, month),
                         end_date |-> DateTime(day + len, 0, month),
                         api_key |-> key]
    /\ calls = <<>>
    /\ weather_result = Idle
    /\ estimate = Idle

\* get_weather_data(location, start_date, end_date, api_key) is called and
\* the provider answers as it likes. Without api_key the key is that of
\* get_config(), which loads and stores the global configuration if there
\* is none.
GetWeatherData ==
    /\ weather_result.status = "idle" /\ estimate.status = "idle"
    /\ \E got \in {get_config(global_config, environ, dotenv)} :
         IF weather_args.api_key # NoKey
         THEN /\ \E coord_resp \in CoordResponses, forecast_resp \in ForecastResponses :
                 \E out \in {get_weather_data(weather_args.location, weather_args.start_date,
                                              weather_args.end_date, weather_args.api_key,
                                              now, NoKey, coord_resp, forecast_resp)} :
                   weather_result' = out.result /\ calls' = out.calls
              /\ UNCHANGED <<config, environ, global_config, loads>>
         ELSE /\ global_config' = got.stored
              /\ environ' = got.env
              /\ loads' = IF got.loaded THEN loads + 1 ELSE loads
              /\ IF ~got.result.ok
                 THEN /\ weather_result' = Raised(got.result.exc)
                      /\ UNCHANGED <<config, calls>>
                 ELSE /\ config' = got.result.val
                      /\ \E coord_resp \in CoordResponses, forecast_resp \in ForecastResponses :
                         \E out \in {get_weather_data(weather_args.location,
                                                      weather_args.start_date,
                                                      weather_args.end_date, NoKey, now,
                                                      got.result.val.openweather_api_key,
                                                      coord_resp, forecast_resp)} :
                           weather_result' = out.result /\ calls' = out.calls
    /\ UNCHANGED <<now, weather_args, estimate, dotenv, config_op>>

\* get_seasonal_estimate(month) is called.
GetSeasonalEstimate ==
    /\ weather_result.status = "idle" /\ estimate.status = "idle"
    /\ \E month \in Months :
         estimate' = [status |-> "returned", month |-> month,
                      value |-> get_seasonal_estimate(month)]
    /\ UNCHANGED <<now, weather_args, calls, weather_result, config, configVars>>

EnvOff ==
    /\ environ = EmptyEnv /\ dotenv = EmptyEnv
    /\ global_config = <<>> /\ config_op = NoConfigOp /\ loads = 0

\* ------------------------------------------------------------- cli.py
\* A date as typed: whether it has the form YYYY-MM-DD, and its month and
\* day (the year is 2025).
DateStr(fmt_ok, month, day) == [fmt_ok |-> fmt_ok, month |-> month, day |-> day]

\* parse_date(date_str): strptime raises ValueError for another form and
\* for a day the month does not have. The time of the result is midnight.
parse_date(date_str) ==
    IF date_str.fmt_ok /\ date_str.month \in 1..12
       /\ date_str.day \in 1..DaysInMonth(date_str.month)
    THEN Ok(Date(date_str.month, date_str.day))
    ELSE Err("ValueError")

\* The day the program runs.
Today == Date(6, 29)

\* datetime.combine(d, datetime.min.time()), days counted from today.
datetime_combine(d) == DateTime(toordinal(d) - toordinal(Today), 0, d.month)

\* estimate_luggage_volume(luggage_name): the volume in liters the AI lookup
\* gives for a luggage name.
estimate_luggage_volume(luggage_name) ==
    CASE luggage_name = "Away Carry-On" -> F(40)
      [] luggage_name = "Osprey Farpoint 55" -> F(55)
      [] OTHER -> F(39)

\* An Optional[float] / Optional[str] flag that is given and not 0 / "".
FlagTruthy(flag, zero) == Len(flag) > 0 /\ flag[1] # zero

RECURSIVE ask_dates(_, _, _)
\* The while loop of interactive_destinations for one location, reading the
\* typed pairs of dates from pair j on: both dates are asked, then parsed;
\* a date that does not parse or an end before the start asks again. At the
\* end of the input click.prompt aborts.
ask_dates(location, answers, j) ==
    IF j > Len(answers) THEN [ok |-> FALSE, next |-> j]
    ELSE LET start_date == parse_date(answers[j].start_str)
             end_date == parse_date(answers[j].end_str)
         IN  IF ~start_date.ok \/ ~end_date.ok THEN ask_dates(location, answers, j + 1)
             ELSE IF date_lt(end_date.val, start_date.val)
             THEN ask_dates(location, answers, j + 1)
             ELSE [ok |-> TRUE, next |-> j + 1,
                   dest |-> TripDestination(location, start_date.val, end_date.val)]

RECURSIVE interactive_destinations(_, _, _, _, _)
\* interactive_destinations(): the destinations of the typed locations from
\* location i on, or click's Abort.
interactive_destinations(locs, i, answers, j, destinations) ==
    IF i > Len(locs) THEN Ok(destinations)
    ELSE LET asked == ask_dates(locs[i], answers, j) IN
         IF ~asked.ok THEN Err("Abort")
         ELSE interactive_destinations(locs, i + 1, answers, asked.next,
                                       Append(destinations, asked.dest))

\* What interactive_trip_details and the non-interactive branch of main
\* give: the trip and the luggage names looked up, or the exit.
Collected(trip_info, lookups) == [ok |-> TRUE, trip_info |-> trip_info, lookups |-> lookups]
NotCollected(how) == [ok |-> FALSE, how |-> how, lookups |-> <<>>]

\* The luggage volume of interactive_trip_details for the typed choice.
interactive_volume(luggage) ==
    IF luggage.choice = 3 THEN estimate_luggage_volume(luggage.luggage_name)
    ELSE IF luggage.choice = 2
    THEN LET parts == luggage.dims IN
         IF Len(parts) < 3 THEN F(39)
         ELSE (parts[1] * parts[2] * parts[3] * 128) \div 1000
    ELSE luggage.volume

\* interactive_destinations, interactive_traveler and
\* interactive_trip_details on the typed answers.
collect_interactive(typed) ==
    LET destinations == interactive_destinations(typed.locations, 1, typed.dates, 1, <<>>)
    IN  IF ~destinations.ok THEN NotCollected("Abort")
        ELSE Collected(TripInfo(destinations.val, TravelerInfo("", <<30>>, "", ""), "", "",
                                LaundryInfo(FALSE), interactive_volume(typed.luggage)),
                       IF typed.luggage.choice = 3 THEN <<typed.luggage.luggage_name>>
                       ELSE <<>>)

RECURSIVE zip_destinations(_, _, _, _, _)
\* The loop over zip(destination, start_date, end_date) from triple i on.
zip_destinations(destination, start_date, end_date, i, destinations) ==
    IF i > Len(destination) THEN Ok(destinations)
    ELSE LET start == parse_date(start_date[i])
             end == parse_date(end_date[i])
         IN  IF ~start.ok \/ ~end.ok THEN Err("ValueError")
             ELSE zip_destinations(destination, start_date, end_date, i + 1,
                                   Append(destinations,
                                          TripDestination(destination[i], start.val, end.val)))

\* final_volume of main: --volume when it is given and not 0, else the volume
\* looked up for --luggage-name when that is given and not empty, else 39.0.
final_volume(volume, luggage_name) ==
    IF FlagTruthy(volume, 0) THEN volume[1]
    ELSE IF FlagTruthy(luggage_name, "") THEN estimate_luggage_volume(luggage_name[1])
    ELSE F(39)

\* The non-interactive branch of main on the flags.
collect_flags(args) ==
    IF Len(args.destination) # Len(args.start_date)
       \/ Len(args.destination) # Len(args.end_date)
    THEN NotCollected("sys.exit")
    ELSE LET destinations == zip_destinations(args.destination, args.start_date,
                                              args.end_date, 1, <<>>)
         IN  IF ~destinations.ok THEN NotCollected("sys.exit")
             ELSE Collected(TripInfo(destinations.val, TravelerInfo("", <<>>, "", ""), "", "",
                                     LaundryInfo(FALSE),
                                     final_volume(args.volume, args.luggage_name)),
                            IF ~FlagTruthy(args.volume, 0) /\ FlagTruthy(args.luggage_name, "")
                            THEN <<args.luggage_name[1]>> ELSE <<>>)

\* has_required and use_interactive of main.
use_interactive(args) ==
    LET has_required == Len(args.destination) > 0 /\ Len(args.start_date) > 0
                        /\ Len(args.end_date) > 0
    IN  args.interactive \/ ~has_required

\* weather_data[key] = val on a dict kept as pairs in insertion order.
dict_set(d, key, val) ==
    IF \E i \in 1..Len(d) : d[i].key = key
    THEN [i \in 1..Len(d) |-> IF d[i].key = key THEN KV(key, val) ELSE d[i]]
    ELSE Append(d, KV(key, val))

\* --------------------------------------------------- the runs of main
\* A run of main: where it is, the stages it has started, how it ended,
\* what it wrote to the console, the luggage names it looked up, whether it
\* read trip input, the weather it has and the destination it is at.
Run(status, pc, stages, exit_code, exc, console, lookups, asked, weather_data, i) ==
    [status |-> status, pc |-> pc, stages |-> stages, exit_code |-> exit_code, exc |-> exc,
     console |-> console, lookups |-> lookups, asked |-> asked,
     weather_data |-> weather_data, i |-> i]

\* click.echo: a line of the console, its fixed text and what is put in.
Echo(text, msg) == [text |-> text, msg |-> msg]

\* sys.exit(code) and an exception nobody catches, which ends the process
\* with a traceback and exit code 1.
Exited(r, code, console) ==
    [r EXCEPT !.status = "exited", !.exit_code = code, !.console = r.console \o console]
Crashed(r, exc) == [r EXCEPT !.status = "crashed", !.exit_code = 1, !.exc = exc]

CliOff == argv = <<>> /\ run = Idle

City(n) == CASE n = 1 -> "Paris" [] n = 2 -> "Rome" [] n = 3 -> "Oslo" [] OTHER -> "Lima"

\* The locations of a command line or an answer: none, distinct cities, or
\* Paris again and again.
LocationLists ==
    {[i \in 1..n |-> City(i)] : n \in 0..MaxDestinations}
    \cup {[i \in 1..n |-> "Paris"] : n \in 2..MaxDestinations}

\* The dates typed: 2025-06-30, 2025-07-02 and 2025-06-31, which June does
\* not have.
DateStrs == {DateStr(TRUE, 6, 30), DateStr(TRUE, 7, 2), DateStr(TRUE, 6, 31)}

NoTyped == [locations |-> <<>>, dates |-> <<>>, luggage |-> [choice |-> 1, volume |-> F(39)]]

\* A command line and what is typed.
Args(interactive, destination, start_date, end_date, volume, luggage_name, typed) ==
    [interactive |-> interactive, destination |-> destination, start_date |-> start_date,
     end_date |-> end_date, volume |-> volume, luggage_name |-> luggage_name, typed |-> typed]

Typed(locs, dates, luggage) == [locations |-> locs, dates |-> dates, luggage |-> luggage]

DatePair(a, b) == [start_str |-> a, end_str |-> b]

\* The command lines of the non-interactive mode: destinations and dates of
\* every kind without luggage flags, and one trip with luggage flags of
\* every kind.
FlagLines ==
    {Args(FALSE, d, s, e, <<>>, <<>>, NoTyped) :
        d \in LocationLists \ {<<>>},
        s \in UNION {[1..n -> DateStrs] : n \in 1..MaxDestinations},
        e \in UNION {[1..n -> DateStrs] : n \in 1..MaxDestinations}}
    \cup {Args(FALSE, <<"Paris">>, <<DateStr(TRUE, 6, 30)>>, <<DateStr(TRUE, 7, 2)>>, v, l,
               NoTyped) :
            v \in {<<>>, <<0>>, <<F(30)>>}, l \in {<<>>, <<"">>, <<"Away Carry-On">>}}

\* The luggage answers: a volume, dimensions, too few dimensions, a name.
LuggageAnswers ==
    {[choice |-> 1, volume |-> F(39)], [choice |-> 2, dims |-> <<55, 35, 20>>],
     [choice |-> 2, dims |-> <<55, 35>>],
     [choice |-> 3, luggage_name |-> "Osprey Farpoint 55"]}

\* The command lines of the interactive mode and what is typed: no flags
\* and answers of every kind for the dates, one trip with luggage answers
\* of every kind, and --interactive on a line that has all the flags.
TypedLines ==
    {Args(FALSE, <<>>, <<>>, <<>>, <<>>, <<>>, Typed(locs, ds, [choice |-> 1, volume |-> F(39)])) :
        locs \in LocationLists,
        ds \in UNION {[1..n -> {DatePair(a, b) : a, b \in DateStrs}] : n \in 0..MaxAttempts}}
    \cup {Args(i, <<>>, <<>>, <<>>, <<>>, <<>>,
               Typed(<<"Paris">>, <<DatePair(DateStr(TRUE, 6, 30), DateStr(TRUE, 7, 2))>>, lug)) :
            i \in BOOLEAN, lug \in LuggageAnswers}
    \cup {Args(TRUE, <<"Rome">>, <<DateStr(TRUE, 7, 2)>>, <<DateStr(TRUE, 6, 30)>>, <<F(30)>>,
               <<"Away Carry-On">>,
               Typed(<<"Paris">>, <<DatePair(DateStr(TRUE, 6, 30), DateStr(TRUE, 7, 2))>>,
                     [choice |-> 1, volume |-> F(39)]))}

InitMain ==
    /\ \E ow \in {<<>>, <<"ow-key">>}, ds \in {<<>>, <<"ds-key">>} :
         environ = [EmptyEnv EXCEPT !["OPENWEATHER_API_KEY"] = ow, !["DEEPSEEK_API_KEY"] = ds]
    /\ dotenv = EmptyEnv
    /\ config = Unloaded
    /\ global_config = <<>>
    /\ config_op = NoConfigOp
    /\ loads = 0
    /\ argv \in FlagLines \cup TypedLines
    /\ run = Run("running", "start", <<>>, 0, "", <<>>, <<>>, FALSE, <<>>, 1)
    /\ trip = NoTrip
    /\ trip_op = Idle
    /\ \E tod \in 0..(TicksPerDay - 1) : now = DateTime(0, tod, 0)
    /\ weather_args = [location |-> "", start_date |-> DateTime(0, 0, 1),
                       end_date |-> DateTime(0, 0, 1), api_key |-> NoKey]
    /\ calls = <<>> /\ weather_result = Idle /\ estimate = Idle

Running(pc) == run.status = "running" /\ run.pc = pc

\* main, lines 275-285: the configuration is fetched and validated.
MainConfig ==
    /\ Running("start")
    /\ LET out == get_config(global_config, environ, dotenv)
           r == [run EXCEPT !.stages = Append(run.stages, "config")]
       IN  /\ global_config' = out.stored
           /\ environ' = out.env
           /\ loads' = IF out.loaded THEN loads + 1 ELSE loads
           /\ IF ~out.result.ok
              THEN config' = config /\ run' = Crashed(r, out.result.exc)
              ELSE /\ config' = out.result.val
                   /\ LET errors == Config_validate(out.result.val) IN
                      run' = IF Len(errors) > 0
                             THEN Exited(r, 1, <<Echo("Configuration errors:", errors)>>)
                             ELSE [r EXCEPT !.pc = "collect"]
    /\ UNCHANGED <<dotenv, config_op, argv, tripVars, now, weather_args, calls,
                   weather_result, estimate>>

\* What main has after collecting the trip.
AfterCollect(r, got) ==
    IF ~got.ok THEN Exited(r, 1, <<Echo(got.how, <<>>)>>)
    ELSE [r EXCEPT !.pc = "weather", !.lookups = got.lookups]

\* main, lines 291-295: the trip is asked for.
MainCollectInteractive ==
    /\ Running("collect")
    /\ use_interactive(argv)
    /\ LET got == collect_interactive(argv.typed)
           r == [run EXCEPT !.stages = Append(run.stages, "collect"), !.asked = TRUE]
       IN  /\ run' = AfterCollect(r, got)
           /\ trip' = IF got.ok THEN got.trip_info ELSE trip
    /\ UNCHANGED <<config, configVars, argv, trip_op, weatherVars>>

\* main, lines 296-340: the trip is read from the flags.
MainCollectFlags ==
    /\ Running("collect")
    /\ ~use_interactive(argv)
    /\ LET got == collect_flags(argv)
           r == [run EXCEPT !.stages = Append(run.stages, "collect"), !.asked = TRUE]
       IN  /\ run' = AfterCollect(r, got)
           /\ trip' = IF got.ok THEN got.trip_info ELSE trip
    /\ UNCHANGED <<config, configVars, argv, trip_op, weatherVars>>

\* What the weather provider answers in the runs of main.
MainCoordResponses ==
    { HttpRaised,
      HttpResponse(200, JObj(<<KV("coord", JObj(<<KV("lat", JNum(F(48))),
                                                 KV("lon", JNum(F(2)))>>))>>)) }
MainForecastResponses ==
    { HttpRaised, DailyBody(JArr(Daily(0, 0, 4))),
      DailyBody(JArr(<<Entry(0, 0, <<JNum(0)>>), JObj(<<KV("dt", JStr("soon"))>>)>>)) }

\* main, lines 343-352: the weather of the next destination is fetched;
\* a trip without destinations has none to fetch.
MainWeather ==
    /\ Running("weather")
    /\ \E r \in {[run EXCEPT !.stages = IF run.i = 1 THEN Append(run.stages, "weather")
                                        ELSE run.stages]} :
         IF Len(trip.destinations) = 0
         THEN run' = [r EXCEPT !.pc = "prompt"] /\ UNCHANGED <<calls, weather_result>>
         ELSE \E coord_resp \in MainCoordResponses, forecast_resp \in MainForecastResponses :
              \E dest \in {trip.destinations[run.i]} :
              \E out \in {get_weather_data(dest.location, datetime_combine(dest.start_date),
                                           datetime_combine(dest.end_date), NoKey, now,
                                           config.openweather_api_key, coord_resp,
                                           forecast_resp)} :
                /\ calls' = calls \o out.calls
                /\ weather_result' = out.result
                /\ run' = IF out.result.status = "raised" THEN Crashed(r, out.result.exc)
                          ELSE [r EXCEPT !.weather_data = dict_set(r.weather_data,
                                                                   dest.location,
                                                                   out.result.value),
                                         !.i = r.i + 1,
                                         !.pc = IF r.i = Len(trip.destinations) THEN "prompt"
                                                ELSE "weather"]
    /\ UNCHANGED <<config, configVars, argv, tripVars, now, weather_args, estimate>>

\* main, line 355: the prompt is built.
MainBuildPrompt ==
    /\ Running("prompt")
    /\ LET out == build_prompt(trip, run.weather_data)
           r == [run EXCEPT !.stages = Append(run.stages, "prompt")]
       IN  /\ run' = IF out.status = "raised" THEN Crashed(r, out.exc)
                     ELSE [r EXCEPT !.pc = "generate"]
           /\ trip_op' = TripOp("build_prompt", 0, 0, <<>>, out, run.weather_data)
    /\ UNCHANGED <<config, configVars, argv, trip, weatherVars>>

\* ------------------------ generating, printing and saving a packing list
\* The text of a completion, as the tokens the parser reads: answers with a
\* block whose worn and packed items add up to the total, whose items do
\* not add up, that lists packed items but no total, whose quantity is no
\* number; any other string is prose without a block.
ShirtJson(qty) ==
    JObj(<<KV("name", JStr("Shirt")), KV("qty", qty), KV("total_volume_l", JNum(F(1)))>>)
AnswerBlock(total, worn, packed) ==
    <<P("txt"), P("START")>>
    \o Render(JObj(<<KV("total_clothes", JArr(total)), KV("worn_on_departure", JArr(worn)),
                     KV("packed_in_luggage", JArr(packed))>>))
    \o <<P("END")>>
text_of(content) ==
    CASE content = "balanced" ->
           AnswerBlock(<<ShirtJson(JNum(F(1))), ShirtJson(JNum(F(1)))>>,
                       <<ShirtJson(JNum(F(1)))>>, <<ShirtJson(JNum(F(1)))>>)
      [] content = "unbalanced" ->
           AnswerBlock(<<ShirtJson(JNum(F(2)))>>, <<>>, <<ShirtJson(JNum(F(1)))>>)
      [] content = "packed only" -> AnswerBlock(<<>>, <<>>, <<ShirtJson(JNum(F(1)))>>)
      [] content = "bad quantity" -> AnswerBlock(<<ShirtJson(JStr("abc"))>>, <<>>, <<>>)
      [] content = "" -> <<>>
      [] OTHER -> <<P("txt")>>

\* generate_packing_list(prompt, config) when the endpoint does resp: the
\* provider's text is parsed; a completion that is no string fails the
\* validation of PackingList(raw_response=...).
generate_packing_list(prompt_, cfg, resp) ==
    LET raw == generate(cfg, prompt_, resp) IN
    IF raw.status = "raised" THEN Raised(raw.exc)
    ELSE IF raw.value.k # "str" THEN Raised("ValidationError")
    ELSE parse_packing_list(text_of(raw.value.s))

\* What a call leaves of the PackingList it is handed. validate_quantities
\* sums over the collections, print_packing_list iterates over them and
\* formats their fields, save_packing_list writes rows or raw_response to
\* the file: none assigns a field or changes a collection.
list_after_validate(self) == self
list_after_print(list) == list
list_after_save(list, format_type) == list

\* print_packing_list(packing_list): the list is printed, then validated;
\* a failed validation adds a warning with its message.
print_packing_list(r, list) ==
    LET checked == validate_quantities(list) IN
    [r EXCEPT !.shown = <<"PACKING LIST">>,
              !.console = r.console
                          \o (IF ~checked.ok
                              THEN <<Echo("Validation warning", checked.message)>>
                              ELSE <<>>)]

\* save_packing_list(packing_list, trip_info, format_type, output_path): the
\* file written, or the exception raised.
save_packing_list(list, trip_info, format_type, output_path) ==
    IF Len(trip_info.destinations) = 0 THEN Raised("IndexError")
    ELSE LET first_dest == trip_info.destinations[1]
             filepath == IF FlagTruthy(output_path, "") THEN [path |-> output_path[1]]
                         ELSE [base_name |-> <<first_dest.start_date, first_dest.location>>,
                               suffix |-> IF format_type \in {"csv", "md"} THEN format_type
                                          ELSE "txt"]
         IN  Returned([filepath |-> filepath, format_type |-> format_type,
                       content |-> IF format_type = "csv"
                                   THEN [packed |-> list.packed_in_luggage,
                                         worn |-> list.worn_on_departure]
                                   ELSE [header |-> <<locations(trip_info),
                                                      total_duration_days(trip_info),
                                                      trip_info.luggage_volume_liters>>,
                                         raw_response |-> list.raw_response]])

\* What the endpoint may do when generate_packing_list is called.
ListExchanges ==
    { HttpRaised, HttpResponse(500, JObj(<<>>)), ChoicesBody(JArr(<<>>)),
      ChoicesBody(JArr(<<Completion(JNull)>>)) }
    \cup {ChoicesBody(JArr(<<Completion(JStr(c))>>)) :
            c \in {"balanced", "unbalanced", "packed only", "bad quantity", "Pack light.", ""}}

\* The trips a list is saved for: one destination, and none.
OneDestination == <<TripDestination("Paris", Date(6, 30), Date(7, 2))>>

\* What calls made outside a run of main leave behind: the calls in order,
\* the console lines, the title printed, the files written and the last
\* exception raised.
Written(made, console, shown, files, exc) ==
    [status |-> "idle", calls |-> made, console |-> console, shown |-> shown,
     files |-> files, exc |-> exc]

\* The arguments of generate_packing_list, print_packing_list and
\* save_packing_list: a configuration with its keys, a prompt, a trip; no
\* call is made yet.
InitDeliver ==
    /\ \E p \in {"openai", "deepseek"} : config = Config(p, <<"sk-openai">>, <<"sk-deepseek">>, <<"ow-key">>)
    /\ prompt = "PACKING_PROMPT"
    /\ remote = Idle /\ generate_result = Idle
    /\ raw_response = <<>> /\ origin = [kind |-> "none", obj |-> JNull] /\ parse_result = Idle
    /\ packing_list = PackingList(<<>>) /\ validation = Idle
    /\ \E ds \in {<<>>, OneDestination} :
         trip = TripInfo(ds, TravelerInfo("", <<>>, "", ""), "", "", LaundryInfo(FALSE), F(39))
    /\ trip_op = Idle
    /\ argv = <<>>
    /\ run = Written(<<>>, <<>>, <<>>, <<>>, "")

\* generate_packing_list(prompt, config) is called and the endpoint does
\* what it likes; the list returned is the one the later calls are handed.
GeneratePackingList ==
    /\ generate_result.status = "idle"
    /\ \E resp \in ListExchanges :
       \E out \in {generate_packing_list(prompt, config, resp)} :
         /\ remote' = [status |-> "done", exchange |-> resp]
         /\ generate_result' = out
         /\ packing_list' = IF out.status = "returned" THEN out.value ELSE packing_list
    /\ UNCHANGED <<config, prompt, parserVars, validation, tripVars, cliVars>>

\* packing_list.validate_quantities() is called on the list returned.
ValidateReturned ==
    /\ generate_result.status = "returned" /\ Len(run.calls) < MaxCalls
    /\ validation' = validate_quantities(packing_list)
    /\ packing_list' = list_after_validate(packing_list)
    /\ run' = [run EXCEPT !.calls = Append(@, "validate_quantities")]
    /\ UNCHANGED <<config, providerVars, parserVars, argv, tripVars>>

\* print_packing_list(packing_list) is called on the list returned.
PrintPackingList ==
    /\ generate_result.status = "returned" /\ Len(run.calls) < MaxCalls
    /\ run' = print_packing_list([run EXCEPT !.calls = Append(@, "print_packing_list")],
                                 packing_list)
    /\ validation' = validate_quantities(packing_list)
    /\ packing_list' = list_after_validate(list_after_print(packing_list))
    /\ UNCHANGED <<config, providerVars, parserVars, argv, tripVars>>

\* save_packing_list(packing_list, trip_info, format_type, output_path) is
\* called on the list returned, in any format, with a path or without.
SavePackingList ==
    /\ generate_result.status = "returned" /\ Len(run.calls) < MaxCalls
    /\ \E format_type \in {"txt", "md", "csv"}, output_path \in {<<>>, <<"list.out">>} :
       \E saved \in {save_packing_list(packing_list, trip, format_type, output_path)} :
       \E r \in {[run EXCEPT !.calls = Append(@, "save_packing_list")]} :
         IF saved.status = "raised"
         THEN run' = [r EXCEPT !.exc = saved.exc] /\ UNCHANGED packing_list
         ELSE /\ run' = [r EXCEPT !.files = Append(r.files, saved.value)]
              /\ packing_list' = list_after_save(packing_list, format_type)
    /\ UNCHANGED <<config, providerVars, parserVars, validation, argv, tripVars>>

\* ------------------------------------------ the backend of a configuration
\* What get_provider(config).generate(prompt) sends: the class built, the
\* API key (an Optional[str], None when unset) and the model of the request.
provider_request(cfg) ==
    IF get_provider(cfg) = "OpenAIProvider"
    THEN [provider |-> "OpenAIProvider", api_key |-> cfg.openai_api_key,
          model |-> cfg.openai_model]
    ELSE [provider |-> "DeepSeekProvider", api_key |-> cfg.deepseek_api_key,
          model |-> cfg.deepseek_model]

\* The environments of a backend: any of the five providers (or none
\* named), each provider's key set or not, the weather key set or not.
InitBackend ==
    /\ \E p \in {<<>>, <<"openai">>, <<"deepseek">>, <<"GLM">>, <<"gemini">>, <<"anthropic">>},
          oa \in {<<>>, <<"oa-key">>}, ds \in {<<>>, <<"ds-key">>},
          glm \in {<<>>, <<"glm-key">>}, gm \in {<<>>, <<"gm-key">>},
          an \in {<<>>, <<"an-key">>}, ow \in {<<>>, <<"ow-key">>} :
         environ = [EmptyEnv EXCEPT !["AI_PROVIDER"] = p, !["OPENAI_API_KEY"] = oa,
                                    !["DEEPSEEK_API_KEY"] = ds, !["GLM_API_KEY"] = glm,
                                    !["GEMINI_API_KEY"] = gm, !["ANTHROPIC_API_KEY"] = an,
                                    !["OPENWEATHER_API_KEY"] = ow]
    /\ dotenv = EmptyEnv
    /\ config = Unloaded
    /\ global_config = <<>>
    /\ config_op = NoConfigOp
    /\ loads = 0
    /\ prompt = "PACKING_PROMPT"
    /\ remote = Idle /\ generate_result = Idle

\* get_provider(config).generate(prompt) is called with the configuration
\* loaded and the endpoint does what it likes.
ProviderGenerate ==
    /\ IsConfig(config)
    /\ generate_result.status = "idle"
    /\ \E resp \in {HttpRaised, HttpResponse(401, JObj(<<KV("error", JStr("invalid api key"))>>)),
                    ChoicesBody(JArr(<<Completion(JStr("Pack light."))>>))} :
         /\ remote' = [status |-> "done", exchange |-> resp, request |-> provider_request(config)]
         /\ generate_result' = generate(config, prompt, resp)
    /\ UNCHANGED <<config, prompt, configVars>>

NextParser ==
    ParsePackingList /\ UNCHANGED <<validatorVars, config, weatherVars, providerVars, configVars, tripVars, cliVars>>
ParserRuns ==
    InitParser /\ ValidatorOff /\ ConfigOff /\ WeatherOff /\ ProviderOff /\ EnvOff /\ TripOff /\ CliOff
SpecParser == ParserRuns /\ [][NextParser]_vars

NextValidator ==
    ValidateQuantities /\ UNCHANGED <<parserVars, config, weatherVars, providerVars, configVars, tripVars, cliVars>>
ValidatorRuns ==
    ParserOff /\ InitValidator /\ ConfigOff /\ WeatherOff /\ ProviderOff /\ EnvOff /\ TripOff /\ CliOff
SpecValidator == ValidatorRuns /\ [][NextValidator]_vars

NextWeather ==
    \/ GetWeatherData /\ UNCHANGED <<parserVars, validatorVars, providerVars, tripVars, cliVars>>
    \/ GetSeasonalEstimate /\ UNCHANGED <<parserVars, validatorVars, providerVars, tripVars, cliVars>>
WeatherRuns == ParserOff /\ ValidatorOff /\ InitWeather /\ ProviderOff /\ TripOff /\ CliOff
SpecWeather == WeatherRuns /\ [][NextWeather]_vars

NextProvider ==
    Generate /\ UNCHANGED <<parserVars, validatorVars, weatherVars, configVars, tripVars, cliVars>>
ProviderRuns == ParserOff /\ ValidatorOff /\ WeatherOff /\ InitProvider /\ EnvOff /\ TripOff /\ CliOff
SpecProvider == ProviderRuns /\ [][NextProvider]_vars

otherVars == <<parserVars, validatorVars, weatherVars, providerVars, tripVars, cliVars>>
OthersOff == ParserOff /\ ValidatorOff /\ WeatherOff /\ ProviderOff /\ TripOff /\ CliOff

NextTrip ==
    \/ DurationDays /\ UNCHANGED <<parserVars, validatorVars, config, weatherVars, providerVars, configVars, cliVars>>
    \/ TotalDurationDays /\ UNCHANGED <<parserVars, validatorVars, config, weatherVars, providerVars, configVars, cliVars>>
    \/ Locations /\ UNCHANGED <<parserVars, validatorVars, config, weatherVars, providerVars, configVars, cliVars>>
    \/ BuildPrompt /\ UNCHANGED <<parserVars, validatorVars, config, weatherVars, providerVars, configVars, cliVars>>
TripRuns ==
    ParserOff /\ ValidatorOff /\ ConfigOff /\ WeatherOff /\ ProviderOff /\ EnvOff /\ InitTrip /\ CliOff
SpecTrip == TripRuns /\ [][NextTrip]_vars

NextMain ==
    \/ MainConfig /\ UNCHANGED <<parserVars, validatorVars, providerVars>>
    \/ MainCollectInteractive /\ UNCHANGED <<parserVars, validatorVars, providerVars>>
    \/ MainCollectFlags /\ UNCHANGED <<parserVars, validatorVars, providerVars>>
    \/ MainWeather /\ UNCHANGED <<parserVars, validatorVars, providerVars>>
    \/ MainBuildPrompt /\ UNCHANGED <<parserVars, validatorVars, providerVars>>
MainRuns == ParserOff /\ ValidatorOff /\ ProviderOff /\ InitMain
SpecMain == MainRuns /\ [][NextMain]_vars

NextDeliver ==
    \/ GeneratePackingList /\ UNCHANGED <<weatherVars, configVars>>
    \/ ValidateReturned /\ UNCHANGED <<weatherVars, configVars>>
    \/ PrintPackingList /\ UNCHANGED <<weatherVars, configVars>>
    \/ SavePackingList /\ UNCHANGED <<weatherVars, configVars>>
DeliverRuns == WeatherOff /\ EnvOff /\ InitDeliver
SpecDeliver == DeliverRuns /\ [][NextDeliver]_vars

NextBackend ==
    \/ ConfigLoad /\ UNCHANGED <<parserVars, validatorVars, weatherVars, providerVars, tripVars, cliVars>>
    \/ ConfigValidate /\ UNCHANGED <<parserVars, validatorVars, weatherVars, providerVars, tripVars, cliVars>>
    \/ ProviderGenerate /\ UNCHANGED <<parserVars, validatorVars, weatherVars, tripVars, cliVars>>
BackendRuns == ParserOff /\ ValidatorOff /\ WeatherOff /\ TripOff /\ CliOff /\ InitBackend
SpecBackend == BackendRuns /\ [][NextBackend]_vars

NextConfig ==
    \/ ConfigLoad /\ UNCHANGED otherVars
    \/ ConfigValidate /\ UNCHANGED otherVars
    \/ ConfigGetActiveApiKey /\ UNCHANGED otherVars
    \/ ConfigGetActiveModel /\ UNCHANGED otherVars
ConfigRuns == OthersOff /\ InitConfig
SpecConfig == ConfigRuns /\ [][NextConfig]_vars

NextSingleton ==
    \/ GetConfig /\ UNCHANGED otherVars
    \/ ResetConfig /\ UNCHANGED otherVars
    \/ SetEnv /\ UNCHANGED otherVars
    \/ AssignField /\ UNCHANGED otherVars
SingletonRuns == OthersOff /\ InitSingleton
SpecSingleton == SingletonRuns /\ [][NextSingleton]_vars

\* ============================================================ claims
ParseDone == parse_result.status # "idle"

EmptyParse(res, text) ==
    /\ res.status = "returned"
    /\ res.value.total_clothes = <<>>
    /\ res.value.worn_on_departure = <<>>
    /\ res.value.packed_in_luggage = <<>>
    /\ res.value.packing_cubes = <<>>
    /\ res.value.totals.estimated_volume_l = 0
    /\ res.value.totals.percent_of_capacity = 0
    /\ res.value.totals.estimated_weight_kg = 0
    /\ res.value.raw_response = text

\* C1: a text with no PARSEABLE_JSON_START ... PARSEABLE_JSON_END block, or
\* whose block is not valid JSON, parses without raising to a PackingList
\* with four empty collections, three zero totals and raw_response equal to
\* the text.
C1_UnparseableYieldsEmptyList ==
    (ParseDone /\ origin.kind \in {"unmarked", "damaged"})
        => EmptyParse(parse_result, raw_response)

\* A damaged JSON text of a non-empty object, between the markers and found
\* by the pattern, has been parsed.
C1_Witness ==
    /\ ParseDone
    /\ origin.kind = "damaged"
    /\ re_search(raw_response).found
    /\ \E i \in 1..Len(origin.obj.items) :
         origin.obj.items[i].key = "total_clothes"
         /\ Len(origin.obj.items[i].val.items) > 0

\* C2: for every text, block or not, schema or not, parse_packing_list
\* returns a PackingList whose raw_response is the text; nothing is raised.
C2_ParseNeverRaises ==
    ParseDone => /\ parse_result.status = "returned"
                 /\ parse_result.value.raw_response = raw_response

HasField(rec, key) == \E i \in 1..Len(rec.items) : rec.items[i].key = key
FieldOf(rec, key) == rec.items[CHOOSE i \in 1..Len(rec.items) : rec.items[i].key = key].val
\* The text of a field, "" when absent.
TextOr(rec, key) == IF HasField(rec, key) THEN FieldOf(rec, key).s ELSE ""
\* The number of a field, 0 when absent.
NumberOr0(rec, key) == IF HasField(rec, key) THEN FieldOf(rec, key).n ELSE 0
\* The integer value of the number x: its whole part, with its sign.
WholePart(x) ==
    CHOOSE q \in (-Abs(x))..Abs(x) :
        /\ (x >= 0 => q >= 0) /\ (x <= 0 => q <= 0)
        /\ F(Abs(q)) <= Abs(x) /\ Abs(x) < F(Abs(q) + 1)
\* The array of a key of the object, empty when absent.
ArrayOf(obj, key) == IF HasField(obj, key) THEN FieldOf(obj, key).items ELSE <<>>

ItemsMatch(items, recs) ==
    /\ Len(items) = Len(recs)
    /\ \A i \in 1..Len(recs) :
         /\ items[i].name = TextOr(recs[i], "name")
         /\ items[i].quantity =
              (IF HasField(recs[i], "qty") THEN WholePart(FieldOf(recs[i], "qty").n) ELSE 1)
         /\ items[i].per_item_volume_l = NumberOr0(recs[i], "per_item_volume_l")
         /\ items[i].total_volume_l = NumberOr0(recs[i], "total_volume_l")
         /\ items[i].description = TextOr(recs[i], "description")

CubesMatch(cubes, recs) ==
    /\ Len(cubes) = Len(recs)
    /\ \A i \in 1..Len(recs) :
         /\ cubes[i].name = TextOr(recs[i], "cube")
         /\ cubes[i].total_volume_l = NumberOr0(recs[i], "total_volume_l")

\* C3: when the block decodes to a JSON object of the schema, each of the
\* four collections has one record per element of its JSON array, in order,
\* with quantity the integer value of qty (1 when absent), the volumes the
\* numbers of their fields (0 when absent) and name, description and cube
\* label the field values ("" when absent).
C3_RecordsMapOneToOne ==
    (ParseDone /\ origin.kind = "schema") =>
        /\ parse_result.status = "returned"
        /\ ItemsMatch(parse_result.value.total_clothes,
                      ArrayOf(origin.obj, "total_clothes"))
        /\ ItemsMatch(parse_result.value.worn_on_departure,
                      ArrayOf(origin.obj, "worn_on_departure"))
        /\ ItemsMatch(parse_result.value.packed_in_luggage,
                      ArrayOf(origin.obj, "packed_in_luggage"))
        /\ CubesMatch(parse_result.value.packing_cubes,
                      ArrayOf(origin.obj, "packing_cubes"))

\* The block {name T-shirt, qty 3, total_volume_l 2.125} followed by a record
\* with no field at all has been parsed into those two items.
C3_Witness ==
    /\ ParseDone
    /\ origin.kind = "schema"
    /\ parse_result.status = "returned"
    /\ parse_result.value.total_clothes =
         << PackingItem("T-shirt", 3, 0, F(2) + 16, ""), PackingItem("", 1, 0, 0, "") >>
    /\ Len(parse_result.value.packing_cubes) = 2

ValidationDone == validation.status # "idle"

RECURSIVE QuantityOf(_), VolumeOf(_)
\* The quantities of a list of items, added up.
QuantityOf(items) ==
    IF items = <<>> THEN 0
    ELSE QuantityOf(SubSeq(items, 1, Len(items) - 1)) + items[Len(items)].quantity
\* The total volumes of a list of items, added up.
VolumeOf(items) ==
    IF items = <<>> THEN 0
    ELSE VolumeOf(SubSeq(items, 1, Len(items) - 1)) + items[Len(items)].total_volume_l

QuantityMismatch ==
    QuantityOf(packing_list.total_clothes) #
        QuantityOf(packing_list.packed_in_luggage) + QuantityOf(packing_list.worn_on_departure)

\* How far the total volume is from packed + worn, in 1/128 l.
VolumeGap ==
    Abs(VolumeOf(packing_list.total_clothes)
        - (VolumeOf(packing_list.packed_in_luggage) + VolumeOf(packing_list.worn_on_departure)))

\* The gap exceeds 0.01 l.
VolumeMismatch == 100 * VolumeGap > 128

\* C4: validate_quantities returns ok = false if and only if the quantities
\* of total_clothes do not add up to packed + worn, or the total volume is
\* more than 0.01 away from packed + worn; a gap within 0.01 is ok.
C4_OkIffSumsReconcile ==
    ValidationDone => (validation.ok <=> ~(QuantityMismatch \/ VolumeMismatch))

\* A list of two or more total items whose volume is off by 1/128 l, inside
\* the tolerance, has been validated and found ok.
C4_Witness ==
    /\ ValidationDone
    /\ validation.ok
    /\ VolumeGap = 1
    /\ Len(packing_list.total_clothes) >= 2
    /\ Len(packing_list.worn_on_departure) = 1

Mentions(message, text) == \E i \in 1..Len(message) : message[i].text = text

\* C5: the message is empty exactly when ok; it names "Quantity mismatch"
\* exactly when the quantities do not reconcile and "Volume mismatch" exactly
\* when the volumes do not; with both, the quantity issue comes first and
\* "; " joins the two.
C5_MessageNamesEachIssue ==
    ValidationDone =>
        /\ (validation.message = <<>>) <=> validation.ok
        /\ Mentions(validation.message, "Quantity mismatch") <=> QuantityMismatch
        /\ Mentions(validation.message, "Volume mismatch") <=> VolumeMismatch
        /\ (QuantityMismatch /\ VolumeMismatch) =>
             /\ Len(validation.message) = 3
             /\ validation.message[1].text = "Quantity mismatch"
             /\ validation.message[2] = Separator
             /\ validation.message[3].text = "Volume mismatch"
        /\ ~(QuantityMismatch /\ VolumeMismatch) => Len(validation.message) <= 1

\* A list with both a quantity and a volume mismatch has been validated.
C5_Witness ==
    /\ ValidationDone
    /\ QuantityMismatch /\ VolumeMismatch
    /\ Len(validation.message) = 3

WeatherDone == weather_result.status # "idle"

\* C6: get_weather_data never fails: whatever the provider does, it returns
\* a WeatherData with at least one forecast.
C6_WeatherNeverFails ==
    WeatherDone => /\ weather_result.status = "returned"
                   /\ Len(weather_result.value.forecasts) >= 1

\* The key the lookup would use: the one given, or else that of the global
\* configuration.
EffectiveKey ==
    IF weather_args.api_key = NoKey THEN global_config[1].openweather_api_key
    ELSE weather_args.api_key

\* a lies more than n days after b.
MoreThanDaysAfter(a, b, n) ==
    a.day - b.day > n \/ (a.day - b.day = n /\ a.tod > b.tod)

\* C7: a trip that starts more than 7 days after now, or no weather key,
\* means no outbound call and exactly one forecast, the seasonal estimate of
\* the start month; a start within 7 days with a key means the coordinate
\* lookup is attempted.
C7_LookupOnlyWithinSevenDays ==
    WeatherDone =>
        IF MoreThanDaysAfter(weather_args.start_date, now, 7) \/ ~KeyTruthy(EffectiveKey)
        THEN /\ calls = <<>>
             /\ weather_result.status = "returned"
             /\ weather_result.value.is_seasonal_estimate
             /\ weather_result.value.forecasts =
                  <<get_seasonal_estimate(weather_args.start_date.month)>>
        ELSE /\ Len(calls) >= 1
             /\ calls[1].fn = "get_coordinates"

\* A daily entry with every field the lookup reads.
WellFormedEntry(e) ==
    /\ e.k = "obj"
    /\ HasField(e, "dt") /\ FieldOf(e, "dt").k = "num"
    /\ HasField(e, "temp") /\ FieldOf(e, "temp").k = "obj"
    /\ HasField(FieldOf(e, "temp"), "min") /\ HasField(FieldOf(e, "temp"), "max")
    /\ FieldOf(FieldOf(e, "temp"), "min").k = "num"
    /\ FieldOf(FieldOf(e, "temp"), "max").k = "num"
    /\ HasField(e, "weather") /\ FieldOf(e, "weather").k = "arr"
    /\ Len(FieldOf(e, "weather").items) > 0
    /\ FieldOf(e, "weather").items[1].k = "obj"
    /\ HasField(FieldOf(e, "weather").items[1], "description")
    /\ HasField(e, "pop") => FieldOf(e, "pop").k = "num"

\* The day an entry is dated on.
EntryDay(e) == (FieldOf(e, "dt").n \div 128) \div TicksPerDay

\* The forecast a well-formed entry stands for.
EntryForecast(e) ==
    WeatherForecast([label |-> "%Y-%m-%d", day |-> EntryDay(e)],
                    FieldOf(FieldOf(e, "temp"), "min").n,
                    FieldOf(FieldOf(e, "temp"), "max").n,
                    <<FieldOf(FieldOf(e, "weather").items[1], "description").s>>,
                    IF HasField(e, "pop") THEN FieldOf(e, "pop").n * 100 ELSE 0)

\* The forecast was fetched and is a 7-day list of well-formed entries.
ForecastFetched ==
    /\ Len(calls) = 2
    /\ ~calls[2].response.raised
    /\ calls[2].response.status_code = 200 /\ calls[2].response.json
    /\ calls[2].response.body.k = "obj"
    /\ HasField(calls[2].response.body, "daily")
    /\ FieldOf(calls[2].response.body, "daily").k = "arr"
    /\ Len(FieldOf(calls[2].response.body, "daily").items) <= 7
    /\ \A i \in 1..Len(FieldOf(calls[2].response.body, "daily").items) :
         WellFormedEntry(FieldOf(calls[2].response.body, "daily").items[i])

\* The entries dated from the trip's first day to its last, both included.
EntriesOfTrip ==
    SelectSeq(FieldOf(calls[2].response.body, "daily").items,
              LAMBDA e : /\ weather_args.start_date.day <= EntryDay(e)
                         /\ EntryDay(e) <= weather_args.end_date.day)

\* C8: on the forecast path the forecasts returned are the provider's daily
\* entries dated within [start_date, end_date], first and last day included,
\* in the provider's order, with rain_chance = pop * 100 (0 without pop).
C8_ForecastsOfEveryTripDay ==
    (WeatherDone /\ ForecastFetched /\ Len(EntriesOfTrip) > 0) =>
        /\ weather_result.status = "returned"
        /\ ~weather_result.value.is_seasonal_estimate
        /\ weather_result.value.forecasts =
             [i \in 1..Len(EntriesOfTrip) |-> EntryForecast(EntriesOfTrip[i])]

EstimateDone == estimate.status # "idle"

\* C9: for every month 1..12 the seasonal estimate has rain_chance 30 and
\* the band of its season: -5..10 and "winter" for months 12, 1, 2; 10..20
\* for months 3-5 (spring) and 9-11 (fall); 20..30 for months 6-8 (summer).
C9_SeasonalBands ==
    EstimateDone =>
        LET m == estimate.month
            e == estimate.value
        IN  /\ m \in 1..12
            /\ e.rain_chance = F(30)
            /\ m \in {12, 1, 2} =>
                 e.temp_min = F(-5) /\ e.temp_max = F(10) /\ e.description[1] = "winter"
            /\ m \in 3..5 =>
                 e.temp_min = F(10) /\ e.temp_max = F(20) /\ e.description[1] = "spring"
            /\ m \in 9..11 =>
                 e.temp_min = F(10) /\ e.temp_max = F(20) /\ e.description[1] = "fall"
            /\ m \in 6..8 =>
                 e.temp_min = F(20) /\ e.temp_max = F(30) /\ e.description[1] = "summer"

\* The estimate of December has been computed.
C9_Witness ==
    /\ EstimateDone
    /\ estimate.month = 12
    /\ estimate.value.temp_min = F(-5)
    /\ estimate.value.description = <<"winter", " weather">>

GenerateDone == generate_result.status # "idle"

\* The completions the endpoint answered with: none when the call failed.
Completions ==
    IF remote.exchange.raised \/ remote.exchange.status_code # 200
       \/ ~HasField(remote.exchange.body, "choices")
    THEN <<>>
    ELSE FieldOf(remote.exchange.body, "choices").items

\* The text of a completion: "" when it has none.
CompletionText(c) ==
    IF HasField(c, "message") /\ HasField(FieldOf(c, "message"), "content")
       /\ FieldOf(FieldOf(c, "message"), "content").k = "str"
    THEN FieldOf(FieldOf(c, "message"), "content").s
    ELSE ""

\* C10: for every provider, generate fails with an error carrying the
\* upstream detail when the call errors, times out or returns no
\* completions, and returns only with the text of the first completion.
C10_GenerateFailsWithoutCompletion ==
    GenerateDone =>
        IF Len(Completions) = 0
        THEN /\ generate_result.status = "raised"
             /\ generate_result.exc = "RuntimeError"
             /\ generate_result.upstream = remote.exchange
        ELSE /\ generate_result.status = "returned"
             /\ generate_result.value.k \in {"str", "null"}
             /\ generate_result.value.s = CompletionText(Completions[1])

\* A key that is set and not empty.
Present(key) == key # <<>> /\ key # <<"">>

\* The environment variable that holds the key of a provider.
KeyVariable(provider) ==
    CASE provider = "openai" -> "OPENAI_API_KEY"
      [] provider = "deepseek" -> "DEEPSEEK_API_KEY"
      [] provider = "glm" -> "GLM_API_KEY"
      [] provider = "gemini" -> "GEMINI_API_KEY"
      [] provider = "anthropic" -> "ANTHROPIC_API_KEY"

\* The names the errors of a validate() call mention.
NamesReported == {config_op.errors[i].names : i \in 1..Len(config_op.errors)}

\* The names a validate() call has to report: the weather key when it is
\* missing, the key of the active provider when it is missing.
NamesMissing ==
    (IF Present(environ["OPENWEATHER_API_KEY"]) THEN {} ELSE {"OPENWEATHER_API_KEY"})
    \cup (IF Present(environ[KeyVariable(config.ai_provider)]) THEN {}
          ELSE {KeyVariable(config.ai_provider)})

\* C12: Config.validate returns no error if and only if the weather key and
\* the key of the active provider are present; otherwise one error naming
\* OPENWEATHER_API_KEY when the weather key is missing and one naming the
\* active provider's key when that is missing; keys of inactive providers
\* are never reported.
C12_ValidateReportsActiveKeys ==
    (IsConfig(config) /\ config_op.op = "validate") =>
        /\ NamesReported = NamesMissing
        /\ Len(config_op.errors) = Cardinality(NamesMissing)
        /\ (config_op.errors = <<>>) <=>
              (Present(environ["OPENWEATHER_API_KEY"])
               /\ Present(environ[KeyVariable(config.ai_provider)]))

\* validate() ran for the glm provider with no GLM key, the weather key set
\* and the key of the inactive openai provider missing as well.
C12_Witness ==
    /\ IsConfig(config) /\ config_op.op = "validate"
    /\ config.ai_provider = "glm"
    /\ environ["GLM_API_KEY"] = <<>> /\ environ["OPENAI_API_KEY"] = <<>>
    /\ environ["OPENWEATHER_API_KEY"] = <<"ow-key">>
    /\ Len(config_op.errors) = 1

\* C13: Config.load runs only on the first get_config call, every later
\* get_config returns that same configuration with its field values
\* unchanged, and no operation replaces or modifies it after the first load.
C13_LoadedAtMostOnce ==
    /\ loads <= 1
    /\ (config_op.first # <<>> /\ global_config # <<>>) => global_config = config_op.first
    /\ (config_op.first # <<>>) => global_config # <<>>

\* The provider an AI_PROVIDER value selects.
ProviderSelected(value) ==
    CASE value \in {<<"openai">>, <<"OpenAI">>} -> "openai"
      [] value = <<"GLM">> -> "glm"
      [] value = <<"Gemini">> -> "gemini"
      [] value = <<"anthropic">> -> "anthropic"
      [] OTHER -> "deepseek"

\* The environment variable that holds the model of a provider, and the model
\* used when it is unset.
ModelVariable(provider) ==
    CASE provider = "openai" -> "OPENAI_MODEL"
      [] provider = "deepseek" -> "DEEPSEEK_MODEL"
      [] provider = "glm" -> "GLM_MODEL"
      [] provider = "gemini" -> "GEMINI_MODEL"
      [] provider = "anthropic" -> "ANTHROPIC_MODEL"
DefaultModel(provider) ==
    CASE provider = "openai" -> "gpt-4-turbo-preview"
      [] provider = "deepseek" -> "deepseek-chat"
      [] provider = "glm" -> "glm-4"
      [] provider = "gemini" -> "gemini-pro"
      [] provider = "anthropic" -> "claude-3-sonnet-20240229"

\* C20: Config.load sets ai_provider to the lower-cased AI_PROVIDER value
\* when that is one of the five providers and to deepseek when it is unset or
\* anything else; get_active_api_key and get_active_model return the key
\* ("" when unset) and the model of exactly that provider.
C20_ActiveProviderFromEnvironment ==
    IsConfig(config) =>
        LET p == ProviderSelected(environ["AI_PROVIDER"]) IN
        /\ config.ai_provider = p
        /\ config_op.op = "get_active_api_key" =>
             config_op.text = (IF environ[KeyVariable(p)] = <<>> THEN ""
                               ELSE environ[KeyVariable(p)][1])
        /\ config_op.op = "get_active_model" =>
             config_op.text = (IF environ[ModelVariable(p)] = <<>> THEN DefaultModel(p)
                               ELSE environ[ModelVariable(p)][1])

\* AI_PROVIDER=OpenAI selected openai, and its key was asked for and given.
C20_Witness ==
    /\ IsConfig(config)
    /\ environ["AI_PROVIDER"] = <<"OpenAI">>
    /\ config.ai_provider = "openai"
    /\ config_op.op = "get_active_api_key"
    /\ config_op.text = "oa-key"

\* ------------------------------------------------------------- claim C14
TripOpDone(op) == trip_op.status = "done" /\ trip_op.op = op

\* The days of the calendar of 2025, and their order by month and day.
Calendar == {Date(m, d) : m \in 1..12, d \in 1..31} \ {x \in {Date(m, d) : m \in 1..12, d \in 1..31} : x.day > DaysInMonth(x.month)}
NotAfter(a, b) == a.month < b.month \/ (a.month = b.month /\ a.day <= b.day)
DaysFromTo(a, b) == {x \in Calendar : NotAfter(a, x) /\ NotAfter(x, b)}

\* The days a destination counts: the calendar days from its start to its
\* end, both included; for an end before the start, what the same formula
\* (end - start) + 1 gives.
DaysCounted(dest) ==
    IF NotAfter(dest.start_date, dest.end_date)
    THEN Cardinality(DaysFromTo(dest.start_date, dest.end_date))
    ELSE 2 - Cardinality(DaysFromTo(dest.end_date, dest.start_date))

RECURSIVE DaysCountedUpTo(_, _)
DaysCountedUpTo(ds, n) == IF n = 0 THEN 0 ELSE DaysCountedUpTo(ds, n - 1) + DaysCounted(ds[n])

\* C14: the duration of a destination whose end is not before its start is
\* the number of calendar days from start to end, both included; the total
\* duration of a trip is the sum of its destinations' durations; locations
\* lists the destinations' locations in their order.
C14_DurationsAndLocations ==
    /\ TripOpDone("duration_days") =>
         LET dest == trip.destinations[trip_op.index] IN
         NotAfter(dest.start_date, dest.end_date) =>
            trip_op.number = Cardinality(DaysFromTo(dest.start_date, dest.end_date))
    /\ TripOpDone("total_duration_days") =>
         trip_op.number = DaysCountedUpTo(trip.destinations, Len(trip.destinations))
    /\ TripOpDone("locations") =>
         /\ Len(trip_op.names) = Len(trip.destinations)
         /\ \A i \in 1..Len(trip.destinations) :
              trip_op.names[i] = trip.destinations[i].location

\* A trip of two destinations, Paris over the end of June (two days) and
\* Rome through July (31 days), whose total of 33 days was read.
C14_Witness ==
    /\ TripOpDone("total_duration_days")
    /\ Len(trip.destinations) = 2
    /\ trip.destinations[1] = TripDestination("Paris", Date(6, 30), Date(7, 1))
    /\ trip.destinations[2] = TripDestination("Rome", Date(7, 1), Date(7, 31))
    /\ trip_op.number = 33

\* ------------------------------------------------------------- claim C15
\* C15: for every trip with at least one destination and every weather map,
\* build_prompt returns a prompt text.
C15_BuildPromptReturnsText ==
    TripOpDone("build_prompt") /\ Len(trip.destinations) >= 1 =>
        trip_op.outcome.status = "returned"

\* ------------------------------------------------------------- claim C16
InRun == run.status # "idle"
Ended == InRun /\ run.status \in {"exited", "crashed"}
StageOf(r) == IF Len(r.stages) = 0 THEN "" ELSE r.stages[Len(r.stages)]

\* The stages of a run in their order.
Stages ==
    <<"config", "collect", "weather", "prompt", "generate", "parse", "validate", "present">>
IsPrefix(s, t) == Len(s) <= Len(t) /\ \A i \in 1..Len(s) : s[i] = t[i]

\* C16: a run goes through its stages in their order, each after the one
\* before it; it ends either after the last stage or by exit code 1 at
\* the configuration validation, at the input or at the AI generation; and
\* when the configuration has errors it exits with code 1 before any trip
\* input is read and before any network call.
C16_StagesInOrder ==
    InRun =>
        /\ IsPrefix(run.stages, Stages)
        /\ Ended =>
             \/ run.stages = Stages
             \/ /\ run.status = "exited" /\ run.exit_code = 1
                /\ StageOf(run) \in {"config", "collect", "generate"}
        /\ Ended /\ StageOf(run) = "config" =>
             /\ run.exit_code = 1
             /\ ~run.asked /\ run.lookups = <<>> /\ calls = <<>>

\* ------------------------------------------------------------- claim C18
\* The trip is collected and the run has gone on to the weather lookup.
TripCollected == InRun /\ run.pc \in {"weather", "prompt", "generate"}

\* C18: every destination of a trip that reaches the weather lookup and the
\* prompt builder ends on or after the day it starts, in both modes.
C18_EndNotBeforeStart ==
    TripCollected =>
        \A i \in 1..Len(trip.destinations) :
            NotAfter(trip.destinations[i].start_date, trip.destinations[i].end_date)

\* ------------------------------------------------------------- claim C19
\* C19: in non-interactive mode the luggage volume of the trip is the one
\* looked up for --luggage-name when that flag is given, whatever --volume
\* says; the --volume value when only that is given; 39.0 liters otherwise.
C19_LuggageVolumeOfFlags ==
    TripCollected /\ ~use_interactive(argv) =>
        IF Len(argv.luggage_name) > 0
        THEN /\ trip.luggage_volume_liters = estimate_luggage_volume(argv.luggage_name[1])
             /\ run.lookups = <<argv.luggage_name[1]>>
        ELSE IF Len(argv.volume) > 0
        THEN trip.luggage_volume_liters = argv.volume[1]
        ELSE trip.luggage_volume_liters = F(39)

\* ------------------------------------------------------------- claim C21
RequestSent == remote.status = "done" /\ "request" \in DOMAIN remote

\* The backend class that goes by a provider's name.
BackendNamed(provider) ==
    CASE provider = "openai" -> "OpenAIProvider"
      [] provider = "deepseek" -> "DeepSeekProvider"
      [] provider = "glm" -> "GLMProvider"
      [] provider = "gemini" -> "GeminiProvider"
      [] provider = "anthropic" -> "AnthropicProvider"

\* C21: the backend built is the one config.ai_provider names, and when
\* validate has reported no errors the key the backend sends is the key
\* of the active provider, which is set.
C21_BackendOfActiveProvider ==
    RequestSent =>
        /\ remote.request.provider = BackendNamed(config.ai_provider)
        /\ (config_op.op = "validate" /\ config_op.errors = <<>>) =>
             /\ Present(remote.request.api_key)
             /\ remote.request.api_key = environ[KeyVariable(config.ai_provider)]

\* ------------------------------------------------------------- claim C22
\* The weather stage is over and its map goes to build_prompt.
WeatherStageOver == InRun /\ run.pc = "prompt"

\* The days of a destination, counted from today as the lookup counts them.
DayOfTrip(d) == toordinal(d) - toordinal(Today)

\* The entry was looked up for the dates of the destination: its forecasts
\* are of days of that stay, or it is the seasonal estimate.
EntryOfStay(entry, dest) ==
    /\ entry.key = dest.location
    /\ entry.val.location = dest.location
    /\ entry.val.is_seasonal_estimate \/
         \A k \in 1..Len(entry.val.forecasts) :
            /\ entry.val.forecasts[k].date.day >= DayOfTrip(dest.start_date)
            /\ entry.val.forecasts[k].date.day <= DayOfTrip(dest.end_date)

\* C22: after the weather stage the map handed to build_prompt has one
\* entry for each destination of the trip, in order, looked up for that
\* destination's own dates, also when a location is visited twice.
C22_WeatherOfEveryDestination ==
    WeatherStageOver =>
        /\ Len(run.weather_data) = Len(trip.destinations)
        /\ \A i \in 1..Len(trip.destinations) :
              i <= Len(run.weather_data) =>
                 EntryOfStay(run.weather_data[i], trip.destinations[i])

\* ------------------------------------------------------------- claim C23
\* The items of the three item collections of a list.
ItemsOf(list) ==
    {list.total_clothes[i] : i \in 1..Len(list.total_clothes)}
    \cup {list.worn_on_departure[i] : i \in 1..Len(list.worn_on_departure)}
    \cup {list.packed_in_luggage[i] : i \in 1..Len(list.packed_in_luggage)}

\* C23: every item of a list that parse_packing_list returned has a
\* quantity of one or more.
C23_QuantityAtLeastOne ==
    parse_result.status = "returned" =>
        \A item \in ItemsOf(parse_result.value) : item.quantity >= 1

====
